---- MODULE Spec2Model ----
(***************************************************************************)
(* Model of the two real-time checkers servers of the repository:          *)
(*                                                                         *)
(*   - the lobby server  (src/unnamed/part_001): open wagers, acceptWager, *)
(*     makeMove, handleGameOver, handleDisconnect, checkLevelUp;           *)
(*   - the queue server  (src/gameSocket.js, class GameSocket): stake      *)
(*     queues, private rooms, createMatch, deductBet, handleGameOver;      *)
(*   - the recharge approval route (src/unnamed/part_000) that writes the  *)
(*     same User.balance.                                                  *)
(*                                                                         *)
(* Node runs one handler at a time until it reaches an `await`; a step of  *)
(* the model is one such run: from the arrival of an event, or from the    *)
(* completion of the database operation a handler waits for, to the next   *)
(* await or to the handler's end.  `calls` holds the suspended handlers.   *)
(* A database operation takes effect in the step that resumes its handler; *)
(* the operations of one Promise.all complete one by one, in any order.    *)
(* A database operation may fail (ok = FALSE); `faults` counts the         *)
(* failures injected so far.                                               *)
(*                                                                         *)
(* The rules of checkers are not part of this layer: the outcome the rules *)
(* engine computes for a move is an input of MakeMove.                     *)
(***************************************************************************)
EXTENDS Integers, Sequences, FiniteSets, TLC

\* ------------------------------------------------------------- bounds
NumUsers     == 3   \* identities
MaxStake     == 1   \* largest stake a client asks for
StartBalance == 1   \* User.balance of every identity before the first event
MaxCalls     == 2   \* handlers suspended at the same time
MaxGames     == 2   \* lobby games ever created
MaxWagers    == 2   \* lobby wagers ever opened
MaxFaults    == 1   \* database operations that fail
MaxMatches   == 1   \* queue server: GameMatch documents ever created
MaxPayouts   == 2   \* queue server: prize credits per match
MaxRooms     == 1   \* queue server: distinct private room codes
MaxRecharges == 1   \* recharge approvals ever started
MaxPieces    == 3   \* pieces on a board given as a position
MaxKings     == 1   \* kings on a board given as a position
MaxCol       == 3   \* rightmost column of a piece of a given position
MenPerSide   == 2   \* men of each colour on a board given to follow a chain
MaxPly       == 3   \* moves followed from a newly created game
MaxXpSteps   == 16  \* accumulated xp, in increments of LOSER_XP
MaxReach     == 2   \* rows and columns between a piece and a destination sent

\* ------------------------------------------------- program constants
PR_CHANGE    == 15
WINNER_XP    == 50
LOSER_XP     == 25
XP_PER_LEVEL == 200
DefaultRankingPoints == 1000
DefaultLevel == 1

Users  == 1..NumUsers
\* The identities that send events in the two-player specifications.
Pair   == 1..(NumUsers - 1)
Slots  == 1..MaxCalls
Stakes == 0..MaxStake
\* What a client may send as betAmount to the queue server.
BetAmounts == Stakes \cup {0 - 1}

VARIABLES
    balance,      \* User.balance in the database
    stats,        \* User.stats.wins/losses, rankingPoints, xp, level
    calls,        \* suspended handlers, one record per slot
    faults,       \* database operations that have failed
    onlineUsers,  \* lobby: Map userId -> socketId (its key set)
    openWagers,   \* lobby: Map userId -> wagerDetails
    activeGames,  \* lobby: { roomId: gameData }
    nextRoom,     \* lobby: room ids handed out so far + 1
    nextWager,    \* lobby: wagerDetails objects created so far + 1
    settled,      \* lobby: per room, the settlement updates applied
    playerSockets,     \* queue server: Map userId -> socketId (its key set)
    socketUser,        \* queue server: socket.user.balance, read at connection
    matchmakingQueues, \* queue server: Map betAmount -> array of waiting players
    gsActiveGames,     \* queue server: Map roomCode -> gameState, in insertion order
    nextMatch,         \* queue server: GameMatch documents created so far + 1
    staked,            \* queue server: per match, the stakes deductBet has debited
    payouts,           \* queue server: per match, the prize credits applied
    applied,           \* per identity, the sum of the balance deltas written
    recharges,         \* recharge approvals started so far
    lobbyGame,         \* lobby: board and turn of one game of activeGames
    queueGame          \* queue server: board and turn of one gameState

dbVars    == <<balance, stats, faults>>
lobbyVars == <<onlineUsers, openWagers, activeGames, nextRoom, nextWager, settled>>
queueVars == <<playerSockets, socketUser, matchmakingQueues, gsActiveGames,
               nextMatch, staked, payouts, applied, recharges>>
rulesVars == <<lobbyGame, queueGame>>
vars == <<balance, stats, calls, faults, onlineUsers, openWagers,
          activeGames, nextRoom, nextWager, settled, playerSockets, socketUser,
          matchmakingQueues, gsActiveGames, nextMatch, staked, payouts, applied,
          recharges, lobbyGame, queueGame>>

\* ------------------------------------------------------ handler slots
\* One suspended handler: op names the handler, pc the await it waits at,
\* u the caller, v the other identity, amt a stake, g a game or wager id,
\* pend the operations of a Promise.all still in flight, loc its locals.
Idle == [op |-> "idle", pc |-> "", u |-> 0, v |-> 0, amt |-> 0, g |-> 0,
         w |-> 0, pend |-> {}, loc |-> <<>>]

HasFree == \E h \in Slots : calls[h].op = "idle"
Free    == CHOOSE h \in Slots : calls[h].op = "idle"
                                /\ \A k \in 1..(h - 1) : calls[k].op # "idle"

Quiescent == \A h \in Slots : calls[h].op = "idle"

\* ok is the outcome of a database operation; at most MaxFaults fail.
MayFail(ok) == ok \/ faults < MaxFaults
Count(ok)   == IF ok THEN faults ELSE faults + 1

\* ================================================================ lobby
\* ------------------------------------------------------------ helpers
Put(f, k, v) == [x \in DOMAIN f \cup {k} |-> IF x = k THEN v ELSE f[x]]
Del(f, k)    == [x \in DOMAIN f \ {k} |-> f[x]]

InFlight(name) == Cardinality({h \in Slots : calls[h].op = name})

\* gameData with a pot of one stake only.
NewGameDataOneStake(host, challenger, betAmount, wager) ==
    [players |-> <<host, challenger>>, turnIndex |-> 0, isFinished |-> FALSE,
     pot |-> betAmount, wager |-> wager, noMove |-> FALSE]

\* gameData as acceptWager builds it: the host plays 'b' and is players[0].
\* wager is the identity of the hostWager object the game was built from;
\* noMove says of the board that the player holding the turn has no legal
\* move.
NewGameData(host, challenger, betAmount, wager) ==
    [players |-> <<host, challenger>>, turnIndex |-> 0, isFinished |-> FALSE,
     pot |-> betAmount * 2, wager |-> wager, noMove |-> FALSE]

\* activeGames[key]?.players.some(p => p.userId === userId)
PlaysIn(g, u) == \E i \in 1..2 : activeGames[g].players[i] = u

\* Object.keys(activeGames).find(...): the first room, in insertion order,
\* that has the user as a player; 0 when there is none.
RoomOf(u) ==
    LET mine == {g \in DOMAIN activeGames : PlaysIn(g, u)}
    IN  IF mine = {} THEN 0 ELSE CHOOSE g \in mine : \A k \in mine : g <= k

\* The synchronous head of handleGameOver: the isFinished guard and flag.
\* handleGameOver without its isFinished guard.
GameOverRunsUnguarded(games, g) == g \in DOMAIN games

GameOverRuns(games, g) == g \in DOMAIN games /\ ~games[g].isFinished

MarkFinished(games, g) == [games EXCEPT ![g].isFinished = TRUE]

\* handleGameOver suspended at Promise.all of the two findByIdAndUpdate.
GameOverCall(games, g, winnerIndex) ==
    [Idle EXCEPT !.op = "over", !.pc = "update", !.g = g,
                 !.u = games[g].players[winnerIndex + 1],
                 !.v = games[g].players[2 - winnerIndex],
                 !.amt = games[g].pot,
                 !.pend = {"winner", "loser"},
                 !.loc = <<0, 0, 0, 0>>]

\* ------------------------------------------------------------ actions
\* io.on('connection')
Connect(u) ==
    /\ u \notin onlineUsers
    /\ onlineUsers' = onlineUsers \cup {u}
    /\ UNCHANGED <<dbVars, calls, openWagers, activeGames, nextRoom, nextWager,
                   settled, queueVars>>
    /\ UNCHANGED rulesVars

\* socket.on('hostWageredGame'): up to `await User.findById`.
HostWageredGame(u, betAmount) ==
    /\ u \in onlineUsers
    /\ HasFree
    /\ nextWager + InFlight("host") <= MaxWagers
    /\ calls' = [calls EXCEPT ![Free] =
                    [Idle EXCEPT !.op = "host", !.pc = "find", !.u = u,
                                 !.amt = betAmount]]
    /\ UNCHANGED <<dbVars, lobbyVars, queueVars>>
    /\ UNCHANGED rulesVars

\* hostWageredGame after the user lookup: the checks and openWagers.set.
HostWageredGameResume(h, ok) ==
    LET c == calls[h] IN
    /\ c.op = "host"
    /\ MayFail(ok)
    /\ faults' = Count(ok)
    /\ calls' = [calls EXCEPT ![h] = Idle]
    /\ IF ok /\ ~(balance[c.u] < c.amt \/ c.amt <= 0)
             /\ c.u \notin DOMAIN openWagers
       THEN /\ openWagers' = Put(openWagers, c.u,
                                 [betAmount |-> c.amt, id |-> nextWager])
            /\ nextWager' = nextWager + 1
       ELSE UNCHANGED <<openWagers, nextWager>>
    /\ UNCHANGED <<balance, stats, onlineUsers, activeGames, nextRoom, settled,
                   queueVars>>
    /\ UNCHANGED rulesVars

\* socket.on('cancelWager')
CancelWager(u) ==
    /\ u \in onlineUsers
    /\ openWagers' = IF u \in DOMAIN openWagers THEN Del(openWagers, u)
                     ELSE openWagers
    /\ UNCHANGED <<dbVars, calls, onlineUsers, activeGames, nextRoom, nextWager,
                   settled, queueVars>>
    /\ UNCHANGED rulesVars

\* socket.on('acceptWager'): openWagers.get, up to `await User.findById`.
AcceptWager(u, hostUserId) ==
    /\ u \in onlineUsers
    /\ IF hostUserId \notin DOMAIN openWagers
       THEN UNCHANGED calls
       ELSE /\ HasFree
            /\ nextRoom + InFlight("accept") <= MaxGames
            /\ calls' = [calls EXCEPT ![Free] =
                  [Idle EXCEPT !.op = "accept", !.pc = "find", !.u = u,
                               !.v = hostUserId,
                               !.amt = openWagers[hostUserId].betAmount,
                               !.w = openWagers[hostUserId].id]]
    /\ UNCHANGED <<dbVars, lobbyVars, queueVars>>
    /\ UNCHANGED rulesVars

\* acceptWager after the challenger lookup: the checks, openWagers.delete,
\* and the two stake debits issued under Promise.all.
AcceptWagerResume(h, ok) ==
    LET c == calls[h] IN
    /\ c.op = "accept" /\ c.pc = "find"
    /\ MayFail(ok)
    /\ faults' = Count(ok)
    /\ IF ok /\ ~(balance[c.u] < c.amt) /\ c.u # c.v
       THEN /\ openWagers' = Del(openWagers, c.v)
            /\ calls' = [calls EXCEPT ![h] =
                  [c EXCEPT !.pc = "debit", !.pend = {c.v, c.u},
                            !.loc = <<balance[c.v], balance[c.u]>>]]
       ELSE /\ calls' = [calls EXCEPT ![h] = Idle]
            /\ UNCHANGED openWagers
    /\ UNCHANGED <<balance, stats, onlineUsers, activeGames, nextRoom, nextWager,
                   settled, queueVars>>
    /\ UNCHANGED rulesVars

\* One of the two `$inc: { balance: -betAmount }` completes.  A failure
\* rejects Promise.all: the catch returns; the other update stays in flight.
\* When both have succeeded the handler goes on to register the game.
AcceptWagerDebit(h, x, ok) ==
    LET c    == calls[h]
        rest == c.pend \ {x}
    IN
    /\ c.op = "accept" /\ c.pc \in {"debit", "aborted"}
    /\ x \in c.pend
    /\ MayFail(ok)
    /\ faults' = Count(ok)
    /\ balance' = IF ok THEN [balance EXCEPT ![x] = @ - c.amt] ELSE balance
    /\ IF c.pc = "debit" /\ ok /\ rest = {}
       THEN /\ calls' = [calls EXCEPT ![h] = Idle]
            /\ IF c.v \in onlineUsers
               THEN /\ activeGames' = Put(activeGames, nextRoom,
                                          NewGameData(c.v, c.u, c.amt, c.w))
                    /\ nextRoom' = nextRoom + 1
               ELSE UNCHANGED <<activeGames, nextRoom>>
       ELSE /\ calls' = [calls EXCEPT ![h] =
                  IF rest = {} THEN Idle
                  ELSE [c EXCEPT !.pend = rest,
                                 !.pc = IF ok THEN c.pc ELSE "aborted"]]
            /\ UNCHANGED <<activeGames, nextRoom>>
    /\ UNCHANGED <<stats, onlineUsers, openWagers, nextWager, settled, queueVars>>
    /\ UNCHANGED rulesVars

\* handleMakeMove.  result is what the rules engine computes for the move:
\* "illegal" (not among the legal moves), "jump" (a capture with a further
\* capture: the turn stays), "pass" (the turn flips, no winner), "win" (the
\* turn flips and checkWinCondition names the mover, who still has a piece:
\* the player who now holds the turn has no legal move, and every move that
\* player sends is illegal).
MakeMove(u, g, result) ==
    /\ u \in onlineUsers
    /\ g \in DOMAIN activeGames
    /\ u = activeGames[g].players[activeGames[g].turnIndex + 1]
    /\ activeGames[g].noMove => result = "illegal"
    /\ LET mover   == activeGames[g].turnIndex
           flipped == [activeGames EXCEPT ![g].turnIndex = 1 - mover,
                                          ![g].noMove = (result = "win")]
       IN  CASE result \in {"illegal", "jump"} ->
                    UNCHANGED <<activeGames, calls>>
             [] result = "pass" ->
                    activeGames' = flipped /\ UNCHANGED calls
             [] result = "win" ->
                    IF GameOverRuns(flipped, g)
                    THEN /\ HasFree
                         /\ activeGames' = MarkFinished(flipped, g)
                         /\ calls' = [calls EXCEPT ![Free] =
                                         GameOverCall(flipped, g, mover)]
                    ELSE activeGames' = flipped /\ UNCHANGED calls
    /\ UNCHANGED <<dbVars, onlineUsers, openWagers, nextRoom, nextWager, settled,
                   queueVars>>
    /\ UNCHANGED rulesVars

\* handleDisconnect: the wager is withdrawn and the first room of the user,
\* if it is not finished, is forfeited to the remaining player.
Disconnect(u) ==
    LET g == RoomOf(u) IN
    /\ u \in onlineUsers
    /\ onlineUsers' = onlineUsers \ {u}
    /\ openWagers' = IF u \in DOMAIN openWagers THEN Del(openWagers, u)
                     ELSE openWagers
    /\ IF g # 0 /\ GameOverRuns(activeGames, g)
       THEN /\ HasFree
            /\ activeGames' = MarkFinished(activeGames, g)
            /\ calls' = [calls EXCEPT ![Free] =
                  GameOverCall(activeGames, g,
                               IF activeGames[g].players[1] = u THEN 1 ELSE 0)]
       ELSE UNCHANGED <<activeGames, calls>>
    /\ UNCHANGED <<dbVars, nextRoom, nextWager, settled, queueVars>>
    /\ UNCHANGED rulesVars

\* checkLevelUp(doc): true when it has an update to await.
LevelsUp(xp) == xp >= XP_PER_LEVEL

\* handleGameOver after both updates: checkLevelUp(winnerDoc), then
\* checkLevelUp(loserDoc), then `finally { delete activeGames[roomId] }`.
\* loc holds <<winnerDoc.xp, winnerDoc.level, loserDoc.xp, loserDoc.level>>.
AfterWinnerLevel(c) ==
    IF LevelsUp(c.loc[3]) THEN [c EXCEPT !.pc = "levelLoser"] ELSE Idle

AfterUpdates(c) ==
    IF LevelsUp(c.loc[1]) THEN [c EXCEPT !.pc = "levelWinner"]
    ELSE AfterWinnerLevel(c)

\* The $inc of the winner's update.
WinnerInc(s, pot) ==
    [s EXCEPT !.wins = @ + 1, !.rankingPoints = @ + PR_CHANGE,
              !.xp = @ + WINNER_XP]

\* The $inc of the loser's update.
LoserInc(s) ==
    [s EXCEPT !.losses = @ + 1, !.rankingPoints = @ - PR_CHANGE,
              !.xp = @ + LOSER_XP]

\* One of the two findByIdAndUpdate of handleGameOver completes.
GameOverUpdate(h, x, ok) ==
    LET c    == calls[h]
        rest == c.pend \ {x}
        who  == IF x = "winner" THEN c.u ELSE c.v
        doc  == IF x = "winner" THEN WinnerInc(stats[who], c.amt)
                ELSE LoserInc(stats[who])
        c2   == [c EXCEPT !.pend = rest,
                   !.loc = IF ~ok THEN c.loc
                           ELSE IF x = "winner"
                                THEN <<doc.xp, doc.level, c.loc[3], c.loc[4]>>
                                ELSE <<c.loc[1], c.loc[2], doc.xp, doc.level>>]
        next == IF c.pc = "update" /\ ok /\ rest = {} THEN AfterUpdates(c2)
                ELSE IF rest = {} THEN Idle
                ELSE IF ok THEN c2 ELSE [c2 EXCEPT !.pc = "aborted"]
    IN
    /\ c.op = "over" /\ c.pc \in {"update", "aborted"}
    /\ x \in c.pend
    /\ MayFail(ok)
    /\ faults' = Count(ok)
    /\ stats' = IF ok THEN [stats EXCEPT ![who] = doc] ELSE stats
    /\ balance' = IF ok /\ x = "winner"
                  THEN [balance EXCEPT ![who] = @ + c.amt] ELSE balance
    /\ settled' = [settled EXCEPT ![c.g] =
                     IF ~ok THEN [@ EXCEPT !.failed = TRUE]
                     ELSE IF x = "winner" THEN [@ EXCEPT !.win = @ + 1]
                     ELSE [@ EXCEPT !.loss = @ + 1]]
    /\ calls' = [calls EXCEPT ![h] = next]
    /\ activeGames' = IF c.pc = "update" /\ (~ok \/ next = Idle)
                      THEN Del(activeGames, c.g) ELSE activeGames
    /\ UNCHANGED <<onlineUsers, openWagers, nextRoom, nextWager, queueVars>>
    /\ UNCHANGED rulesVars

\* The findByIdAndUpdate of checkLevelUp completes: level and xp are set
\* from the document handleGameOver got back from its own update.
LevelUpdate(h, ok) ==
    LET c    == calls[h]
        win  == c.pc = "levelWinner"
        who  == IF win THEN c.u ELSE c.v
        xp   == IF win THEN c.loc[1] ELSE c.loc[3]
        lvl  == IF win THEN c.loc[2] ELSE c.loc[4]
        next == IF ok /\ win THEN AfterWinnerLevel(c) ELSE Idle
    IN
    /\ c.op = "over" /\ c.pc \in {"levelWinner", "levelLoser"}
    /\ MayFail(ok)
    /\ faults' = Count(ok)
    /\ stats' = IF ok THEN [stats EXCEPT ![who].level = lvl + 1,
                                         ![who].xp = xp % XP_PER_LEVEL]
                ELSE stats
    /\ calls' = [calls EXCEPT ![h] = next]
    /\ activeGames' = IF next = Idle THEN Del(activeGames, c.g) ELSE activeGames
    /\ UNCHANGED <<balance, onlineUsers, openWagers, nextRoom, nextWager, settled,
                   queueVars>>
    /\ UNCHANGED rulesVars

\* ========================================================= queue server
\* ------------------------------------------------------------ helpers
\* The positions of a sequence that satisfy nothing but being in it.
Indices(q) == 1..Len(q)

\* Array.prototype.splice(index, 1)
Splice(q, i) == [k \in 1..(Len(q) - 1) |-> IF k < i THEN q[k] ELSE q[k + 1]]

InSeq(q, u) == \E i \in Indices(q) : q[i] = u

\* queue.findIndex(p => p.id === userId) and splice: the first entry of the
\* user leaves the queue.
WithoutFirst(q, u) ==
    IF ~InSeq(q, u) THEN q
    ELSE Splice(q, CHOOSE i \in Indices(q) :
                      q[i] = u /\ \A k \in 1..(i - 1) : q[k] # u)

isPlayerInQueue(u) == \E b \in DOMAIN matchmakingQueues : InSeq(matchmakingQueues[b], u)

isPlayerInGame(u) ==
    \E i \in Indices(gsActiveGames) : InSeq(gsActiveGames[i].players, u)

\* A removal that empties every queue.
removePlayerFromQueueClear(u) == [b \in DOMAIN matchmakingQueues |-> <<>>]

removePlayerFromQueue(u) ==
    [b \in DOMAIN matchmakingQueues |-> WithoutFirst(matchmakingQueues[b], u)]

\* The index in the Map's insertion order of the first game the user plays
\* in; 0 when findGameByPlayerId returns null.
findGameByPlayerId(u) ==
    LET mine == {i \in Indices(gsActiveGames) : InSeq(gsActiveGames[i].players, u)}
    IN  IF mine = {} THEN 0 ELSE CHOOSE i \in mine : \A k \in mine : i <= k

\* createGameState: currentTurn is null (0) and nothing defined in the
\* class sets it; a private room starts with players = [].
createGameState(roomCode, isPrivate, betAmount, creator, players) ==
    [roomCode |-> roomCode, isPrivate |-> isPrivate, betAmount |-> betAmount,
     creator |-> creator, players |-> players, currentTurn |-> 0]

\* Map.set(roomCode, gameState): a known key keeps its place.
MapSet(games, gs) ==
    IF \E i \in Indices(games) : games[i].roomCode = gs.roomCode
    THEN [i \in Indices(games) |->
             IF games[i].roomCode = gs.roomCode THEN gs ELSE games[i]]
    ELSE Append(games, gs)

\* Map.delete(roomCode)
MapDelete(games, roomCode) ==
    IF \E i \in Indices(games) : games[i].roomCode = roomCode
    THEN Splice(games, CHOOSE i \in Indices(games) : games[i].roomCode = roomCode)
    ELSE games

MatchCode(m) == <<"match", m>>
RoomCode(r)  == <<"room", r>>

\* A prize of one stake only.
TotalPrizeOneStake(betAmount) == betAmount

\* handleGameOver: totalPrize
TotalPrize(betAmount) == betAmount * 2

\* handleGameOver up to `await GameMatch.findById`; u is the forced winner,
\* v the other player, g the match id, amt the game's betAmount.
GameOverStart(gs, winner) ==
    [Idle EXCEPT !.op = "gameOver", !.pc = "matchFind", !.u = winner,
                 !.v = CHOOSE p \in {gs.players[1], gs.players[2]} : p # winner,
                 !.g = gs.roomCode[2], !.amt = gs.betAmount]

\* The settlements of match m that have not credited the prize yet.
Unpaid(m) ==
    {h \in Slots : calls[h].op = "gameOver" /\ calls[h].g = m
                   /\ calls[h].pc \in {"matchFind", "matchSave", "winnerFind",
                                       "winnerSave"}}

\* Bound on the prize credits of the match of game gs.
MayStartGameOver(gs) ==
    Len(payouts[gs.roomCode[2]]) + Cardinality(Unpaid(gs.roomCode[2])) < MaxPayouts

\* players.find(p => p.id !== userId)
Opponent(gs, u) == CHOOSE p \in {gs.players[1], gs.players[2]} : p # u

\* ------------------------------------------------------------ actions
\* io.use + io.on('connection'): socket.user is the document as read now.
Connection(u) ==
    /\ u \notin playerSockets
    /\ playerSockets' = playerSockets \cup {u}
    /\ socketUser' = [socketUser EXCEPT ![u] = balance[u]]
    /\ UNCHANGED <<dbVars, calls, lobbyVars, matchmakingQueues, gsActiveGames,
                   nextMatch, staked, payouts, applied, recharges>>
    /\ UNCHANGED rulesVars

\* A findMatch that keeps one queue for every stake.
handleFindMatchOneQueue(u, betAmount) ==
    /\ u \in playerSockets
    /\ IF betAmount < 0 \/ socketUser[u] < betAmount
          \/ isPlayerInQueue(u) \/ isPlayerInGame(u)
       THEN UNCHANGED <<matchmakingQueues, calls, nextMatch>>
       ELSE IF Len(matchmakingQueues[0]) > 0
       THEN /\ HasFree
            /\ nextMatch <= MaxMatches
            /\ matchmakingQueues' = [matchmakingQueues EXCEPT ![0] = Tail(@)]
            /\ calls' = [calls EXCEPT ![Free] =
                  [Idle EXCEPT !.op = "createMatch", !.pc = "save", !.u = u,
                               !.v = Head(matchmakingQueues[0]),
                               !.amt = betAmount, !.g = nextMatch]]
            /\ nextMatch' = nextMatch + 1
       ELSE /\ matchmakingQueues' = [matchmakingQueues EXCEPT ![0] = Append(@, u)]
            /\ UNCHANGED <<calls, nextMatch>>
    /\ UNCHANGED <<dbVars, lobbyVars, playerSockets, socketUser, gsActiveGames,
                   staked, payouts, applied, recharges>>
    /\ UNCHANGED rulesVars

\* handleFindMatch, and createMatch up to `await match.save()`.
handleFindMatch(u, betAmount) ==
    /\ u \in playerSockets
    /\ IF betAmount < 0 \/ socketUser[u] < betAmount
          \/ isPlayerInQueue(u) \/ isPlayerInGame(u)
       THEN UNCHANGED <<matchmakingQueues, calls, nextMatch>>
       ELSE IF Len(matchmakingQueues[betAmount]) > 0
       THEN /\ HasFree
            /\ nextMatch <= MaxMatches
            /\ matchmakingQueues' =
                  [matchmakingQueues EXCEPT ![betAmount] = Tail(@)]
            /\ calls' = [calls EXCEPT ![Free] =
                  [Idle EXCEPT !.op = "createMatch", !.pc = "save", !.u = u,
                               !.v = Head(matchmakingQueues[betAmount]),
                               !.amt = betAmount, !.g = nextMatch]]
            /\ nextMatch' = nextMatch + 1
       ELSE /\ matchmakingQueues' =
                  [matchmakingQueues EXCEPT ![betAmount] = Append(@, u)]
            /\ UNCHANGED <<calls, nextMatch>>
    /\ UNCHANGED <<dbVars, lobbyVars, playerSockets, socketUser, gsActiveGames,
                   staked, payouts, applied, recharges>>
    /\ UNCHANGED rulesVars

\* handleCancelFindMatch
handleCancelFindMatch(u) ==
    /\ u \in playerSockets
    /\ matchmakingQueues' = removePlayerFromQueue(u)
    /\ UNCHANGED <<dbVars, calls, lobbyVars, playerSockets, socketUser,
                   gsActiveGames, nextMatch, staked, payouts, applied, recharges>>
    /\ UNCHANGED rulesVars

\* handleCreatePrivateRoom: generateRoomCode draws the code at random.
handleCreatePrivateRoom(u, betAmount, code) ==
    /\ u \in playerSockets
    /\ gsActiveGames' =
          IF betAmount > 0 /\ socketUser[u] < betAmount THEN gsActiveGames
          ELSE MapSet(gsActiveGames,
                      createGameState(RoomCode(code), TRUE, betAmount, u, <<>>))
    /\ UNCHANGED <<dbVars, calls, lobbyVars, playerSockets, socketUser,
                   matchmakingQueues, nextMatch, staked, payouts, applied,
                   recharges>>
    /\ UNCHANGED rulesVars

\* The index in activeGames of the game stored under the room code; 0 when
\* activeGames.get(roomCode) is undefined.
RoomIndex(code) ==
    LET at == {i \in Indices(gsActiveGames) :
                  gsActiveGames[i].roomCode = RoomCode(code)}
    IN  IF at = {} THEN 0 ELSE CHOOSE i \in at : TRUE

\* A join whose addPlayerToGame appends the joiner to the room's players.
handleJoinPrivateRoomAdds(u, code) ==
    LET i == RoomIndex(code) IN
    /\ u \in playerSockets
    /\ gsActiveGames' =
          IF i = 0 THEN gsActiveGames
          ELSE IF Len(gsActiveGames[i].players) >= 2
                  \/ gsActiveGames[i].betAmount > socketUser[u]
          THEN gsActiveGames
          ELSE [gsActiveGames EXCEPT ![i].players = Append(@, u)]
    /\ UNCHANGED <<dbVars, calls, lobbyVars, playerSockets, socketUser,
                   matchmakingQueues, nextMatch, staked, payouts, applied,
                   recharges>>
    /\ UNCHANGED rulesVars

\* handleJoinPrivateRoom: after its three checks it calls
\* this.addPlayerToGame, which the class does not define: the TypeError is
\* caught and answered with 'Error joining private room'.
handleJoinPrivateRoom(u, code) ==
    /\ u \in playerSockets
    /\ UNCHANGED vars

\* handleSurrender up to the first await of handleGameOver.
handleSurrender(u) ==
    LET i == findGameByPlayerId(u) IN
    /\ u \in playerSockets
    /\ IF i = 0 THEN UNCHANGED calls
       ELSE /\ HasFree
            /\ MayStartGameOver(gsActiveGames[i])
            /\ calls' = [calls EXCEPT ![Free] =
                  GameOverStart(gsActiveGames[i], Opponent(gsActiveGames[i], u))]
    /\ UNCHANGED <<dbVars, lobbyVars, queueVars>>
    /\ UNCHANGED rulesVars

\* handleDisconnect, with handlePlayerDisconnect.
handleDisconnect(u) ==
    LET i == findGameByPlayerId(u) IN
    /\ u \in playerSockets
    /\ matchmakingQueues' = removePlayerFromQueue(u)
    /\ playerSockets' = playerSockets \ {u}
    /\ IF i = 0 THEN UNCHANGED <<calls, gsActiveGames>>
       ELSE IF Len(gsActiveGames[i].players) < 2
       THEN /\ gsActiveGames' = MapDelete(gsActiveGames, gsActiveGames[i].roomCode)
            /\ UNCHANGED calls
       ELSE /\ HasFree
            /\ MayStartGameOver(gsActiveGames[i])
            /\ calls' = [calls EXCEPT ![Free] =
                  GameOverStart(gsActiveGames[i], Opponent(gsActiveGames[i], u))]
            /\ UNCHANGED gsActiveGames
    /\ UNCHANGED <<dbVars, lobbyVars, socketUser, nextMatch, staked, payouts,
                   applied, recharges>>
    /\ UNCHANGED rulesVars

\* createMatch after match.save(): the two deductBet start under Promise.all.
\* loc holds, for player1 and for player2, the await deductBet is at and the
\* balance of the document it has read.
createMatchSaved(h, ok) ==
    LET c == calls[h] IN
    /\ c.op = "createMatch" /\ c.pc = "save"
    /\ MayFail(ok)
    /\ faults' = Count(ok)
    /\ calls' = [calls EXCEPT ![h] =
          IF ok THEN [c EXCEPT !.pc = "deduct", !.loc = <<"find", 0, "find", 0>>]
          ELSE Idle]
    /\ UNCHANGED <<balance, stats, lobbyVars, queueVars>>
    /\ UNCHANGED rulesVars

\* The queue server's userSchema: balance has min: 0, which save() validates
\* before it writes.  save() validates and writes the paths whose value has
\* changed since the document was read, and no others.
ValidBalance(b) == b >= 0

\* Where deductBet goes after the await it is at.
DeductNext(pc) == IF pc = "find" THEN "save" ELSE IF pc = "save" THEN "log"
                  ELSE "done"

DeductRunning(pc) == pc \in {"find", "save", "log"}

\* One await of deductBet(player_i) completes: findById reads the document,
\* save() writes the balance computed from it unless validation rejects it,
\* Transaction.create logs it.
\* When both deductBet are done createMatch registers the game; its call of
\* this.startGame, which the class does not define, then throws.
deductBet(h, i, ok) ==
    LET c     == calls[h]
        who   == IF i = 1 THEN c.u ELSE c.v
        pc    == c.loc[2 * i - 1]
        other == c.loc[5 - 2 * i]
        rejected == pc = "save" /\ c.amt # 0
                    /\ ~ValidBalance(c.loc[2 * i] - c.amt)
        good  == ok /\ ~rejected
        pcN   == IF good THEN DeductNext(pc) ELSE "failed"
        snapN == IF good /\ pc = "find" THEN balance[who] ELSE c.loc[2 * i]
        locN  == IF i = 1 THEN <<pcN, snapN, c.loc[3], c.loc[4]>>
                 ELSE <<c.loc[1], c.loc[2], pcN, snapN>>
        wrote == good /\ pc = "save"
    IN
    /\ c.op = "createMatch" /\ c.pc \in {"deduct", "aborted"}
    /\ DeductRunning(pc)
    /\ rejected => ok
    /\ MayFail(ok)
    /\ faults' = Count(ok)
    /\ balance' = IF wrote /\ c.amt # 0
                  THEN [balance EXCEPT ![who] = snapN - c.amt]
                  ELSE balance
    /\ applied' = IF wrote THEN [applied EXCEPT ![who] = @ - c.amt] ELSE applied
    /\ staked' = IF wrote THEN [staked EXCEPT ![c.g] = @ + c.amt] ELSE staked
    /\ IF c.pc = "deduct" /\ pcN = "done" /\ other = "done"
       THEN /\ gsActiveGames' = MapSet(gsActiveGames,
                  createGameState(MatchCode(c.g), FALSE, c.amt, 0, <<c.u, c.v>>))
            /\ calls' = [calls EXCEPT ![h] = Idle]
       ELSE /\ calls' = [calls EXCEPT ![h] =
                  IF ~DeductRunning(pcN) /\ ~DeductRunning(other) THEN Idle
                  ELSE [c EXCEPT !.loc = locN,
                                 !.pc = IF good THEN c.pc ELSE "aborted"]]
            /\ UNCHANGED gsActiveGames
    /\ UNCHANGED <<stats, lobbyVars, playerSockets, socketUser,
                   matchmakingQueues, nextMatch, payouts, recharges>>
    /\ UNCHANGED rulesVars

\* Where handleGameOver goes after the await it is at.
GameOverNext(pc) ==
    CASE pc = "matchFind"  -> "matchSave"
      [] pc = "matchSave"  -> "winnerFind"
      [] pc = "winnerFind" -> "winnerSave"
      [] pc = "winnerSave" -> "loserFind"
      [] pc = "loserFind"  -> "loserSave"
      [] pc = "loserSave"  -> "log"
      [] pc = "log"        -> "end"

\* One await of handleGameOver completes.  The documents are read, changed
\* in memory and saved: save() writes the values computed from the read.
\* A failure throws out of handleGameOver before activeGames.delete.
handleGameOver(h, ok) ==
    LET c     == calls[h]
        prize == TotalPrize(c.amt)
        pcN   == GameOverNext(c.pc)
        rejected == c.pc = "winnerSave" /\ prize # 0
                    /\ ~ValidBalance(c.loc[1] + prize)
        good  == ok /\ ~rejected
    IN
    /\ c.op = "gameOver"
    /\ rejected => ok
    /\ MayFail(ok)
    /\ faults' = Count(ok)
    /\ calls' = [calls EXCEPT ![h] =
          IF ~good \/ pcN = "end" THEN Idle
          ELSE [c EXCEPT !.pc = pcN,
                  !.loc = IF c.pc = "winnerFind"
                          THEN <<balance[c.u], stats[c.u].wins,
                                 stats[c.u].totalWinnings>>
                          ELSE IF c.pc = "loserFind" THEN <<stats[c.v].losses>>
                          ELSE c.loc]]
    /\ balance' = IF good /\ c.pc = "winnerSave" /\ prize # 0
                  THEN [balance EXCEPT ![c.u] = c.loc[1] + prize] ELSE balance
    /\ stats' = IF good /\ c.pc = "winnerSave"
                THEN [stats EXCEPT ![c.u].wins = c.loc[2] + 1,
                                   ![c.u].totalWinnings =
                                       IF prize # 0 THEN c.loc[3] + prize ELSE @]
                ELSE IF good /\ c.pc = "loserSave"
                THEN [stats EXCEPT ![c.v].losses = c.loc[1] + 1]
                ELSE stats
    /\ applied' = IF good /\ c.pc = "winnerSave"
                  THEN [applied EXCEPT ![c.u] = @ + prize] ELSE applied
    /\ payouts' = IF good /\ c.pc = "winnerSave"
                  THEN [payouts EXCEPT ![c.g] = Append(@, <<c.u, prize>>)]
                  ELSE payouts
    /\ gsActiveGames' = IF good /\ pcN = "end"
                        THEN MapDelete(gsActiveGames, MatchCode(c.g))
                        ELSE gsActiveGames
    /\ UNCHANGED <<lobbyVars, playerSockets, socketUser, matchmakingQueues,
                   nextMatch, staked, recharges>>
    /\ UNCHANGED rulesVars

\* POST /admin/payment-requests/:id/process, for an approved recharge of
\* `amount` to user u: up to the await of findById(...).populate('user').
processPaymentRequest(u, amount) ==
    /\ HasFree
    /\ recharges < MaxRecharges
    /\ recharges' = recharges + 1
    /\ calls' = [calls EXCEPT ![Free] =
          [Idle EXCEPT !.op = "payment", !.pc = "find", !.u = u, !.amt = amount]]
    /\ UNCHANGED <<dbVars, lobbyVars, playerSockets, socketUser,
                   matchmakingQueues, gsActiveGames, nextMatch, staked, payouts,
                   applied>>
    /\ UNCHANGED rulesVars

PaymentNext(pc) ==
    CASE pc = "find"            -> "requestSave"
      [] pc = "requestSave"     -> "transactionFind"
      [] pc = "transactionFind" -> "transactionSave"
      [] pc = "transactionSave" -> "userSave"
      [] pc = "userSave"        -> "end"

\* One await of the approval completes: populate('user') reads the user
\* document, request.user.save() writes the balance computed from it.
paymentStep(h, ok) ==
    LET c   == calls[h]
        pcN == PaymentNext(c.pc)
        rejected == c.pc = "userSave" /\ ~ValidBalance(c.loc[1] + c.amt)
        good == ok /\ ~rejected
    IN
    /\ c.op = "payment"
    /\ rejected => ok
    /\ MayFail(ok)
    /\ faults' = Count(ok)
    /\ calls' = [calls EXCEPT ![h] =
          IF ~good \/ pcN = "end" THEN Idle
          ELSE [c EXCEPT !.pc = pcN,
                  !.loc = IF c.pc = "find" THEN <<balance[c.u]>> ELSE c.loc]]
    /\ balance' = IF good /\ c.pc = "userSave"
                  THEN [balance EXCEPT ![c.u] = c.loc[1] + c.amt] ELSE balance
    /\ applied' = IF good /\ c.pc = "userSave"
                  THEN [applied EXCEPT ![c.u] = @ + c.amt] ELSE applied
    /\ UNCHANGED <<stats, lobbyVars, playerSockets, socketUser,
                   matchmakingQueues, gsActiveGames, nextMatch, staked, payouts,
                   recharges>>
    /\ UNCHANGED rulesVars

\* ========================================================= rules engine
\* ------------------------------------------------------------- boards
\* A board is the 8x8 array of the code: a function from <<row, col>> to
\* 'b', 'B', 'r', 'R' or null.
BoardSize == 8
Rows      == 0..(BoardSize - 1)
Cells     == Rows \X Rows
Null      == "_"
Colours   == {"b", "r"}
Pieces    == {"b", "B", "r", "R"}

toLowerCase(p) == IF p = "B" THEN "b" ELSE IF p = "R" THEN "r" ELSE p
toUpperCase(p) == IF p = "b" THEN "B" ELSE IF p = "r" THEN "R" ELSE p

InBoard(r, c) == r \in Rows /\ c \in Rows

\* The four diagonal directions (captureDirections).
Directions == {<<0 - 1, 0 - 1>>, <<0 - 1, 1>>, <<1, 0 - 1>>, <<1, 1>>}

OtherColour(colour) == IF colour = "b" THEN "r" ELSE "b"

\* ------------------------------------------------ lobby: rules engine
\* A move object of the lobby server.
RawMove(row, col, destRow, destCol, isJump, captured) ==
    [from |-> <<row, col>>, to |-> <<destRow, destCol>>, isJump |-> isJump,
     captured |-> captured]

\* calculateRawMoves, king, simple moves: the loop over i of one direction.
RECURSIVE KingSlides(_, _, _, _, _, _)
KingSlides(board, row, col, dr, dc, i) ==
    LET destRow == row + i * dr
        destCol == col + i * dc
    IN  IF i >= BoardSize \/ ~InBoard(destRow, destCol) THEN {}
        ELSE IF board[<<destRow, destCol>>] # Null THEN {}
        ELSE {RawMove(row, col, destRow, destCol, FALSE, <<>>)}
             \cup KingSlides(board, row, col, dr, dc, i + 1)

\* calculateRawMoves, king, captures: the loop over i of one direction;
\* capturedPiece is <<>> for null.
RECURSIVE KingJumps(_, _, _, _, _, _, _, _)
KingJumps(board, row, col, dr, dc, i, opponent, capturedPiece) ==
    LET checkRow == row + i * dr
        checkCol == col + i * dc
        squareContent == board[<<checkRow, checkCol>>]
    IN  IF i >= BoardSize \/ ~InBoard(checkRow, checkCol) THEN {}
        ELSE IF squareContent # Null
        THEN IF toLowerCase(squareContent) = opponent /\ capturedPiece = <<>>
             THEN KingJumps(board, row, col, dr, dc, i + 1, opponent,
                            <<<<checkRow, checkCol>>>>)
             ELSE {}
        ELSE (IF capturedPiece # <<>>
              THEN {RawMove(row, col, checkRow, checkCol, TRUE, capturedPiece)}
              ELSE {})
             \cup KingJumps(board, row, col, dr, dc, i + 1, opponent,
                            capturedPiece)

\* calculateRawMoves: the moves of the piece on (row, col), as a set.
calculateRawMoves(board, row, col) ==
    LET piece    == board[<<row, col>>]
        isKing   == piece = "B" \/ piece = "R"
        opponent == IF toLowerCase(piece) = "b" THEN "r" ELSE "b"
        moveDirections ==
            IF piece = "b" THEN {<<0 - 1, 0 - 1>>, <<0 - 1, 1>>}
            ELSE IF piece = "r" THEN {<<1, 0 - 1>>, <<1, 1>>} ELSE {}
        simple ==
            IF isKing
            THEN UNION {KingSlides(board, row, col, d[1], d[2], 1) :
                        d \in Directions}
            ELSE {RawMove(row, col, row + d[1], col + d[2], FALSE, <<>>) :
                    d \in {e \in moveDirections :
                             /\ InBoard(row + e[1], col + e[2])
                             /\ board[<<row + e[1], col + e[2]>>] = Null}}
        jumps ==
            IF isKing
            THEN UNION {KingJumps(board, row, col, d[1], d[2], 1, opponent, <<>>) :
                        d \in Directions}
            ELSE {RawMove(row, col, row + 2 * d[1], col + 2 * d[2], TRUE,
                          <<<<row + d[1], col + d[2]>>>>) :
                    d \in {e \in Directions :
                             /\ InBoard(row + 2 * e[1], col + 2 * e[2])
                             /\ board[<<row + 2 * e[1], col + 2 * e[2]>>] = Null
                             /\ toLowerCase(board[<<row + e[1], col + e[2]>>])
                                   = opponent}}
    IN  IF piece = Null THEN {} ELSE simple \cup jumps

\* findAllPossibleMoves without the priority of captures.
findAllPossibleMovesAll(board, playerColor) ==
    UNION {calculateRawMoves(board, cell[1], cell[2]) :
           cell \in {x \in Cells : toLowerCase(board[x]) = playerColor}}

\* findAllPossibleMoves
findAllPossibleMoves(board, playerColor) ==
    LET allMoves == UNION {calculateRawMoves(board, cell[1], cell[2]) :
                           cell \in {x \in Cells :
                                       toLowerCase(board[x]) = playerColor}}
        jumpMoves == {m \in allMoves : m.isJump}
    IN  IF jumpMoves # {} THEN jumpMoves ELSE allMoves

\* updateBoardState crowning on simple moves only.
updateBoardStateCrownOnSimple(board, move) ==
    LET pieceType == board[move.from]
        placed == IF ~move.isJump /\
                     ((pieceType = "b" /\ move.to[1] = 0)
                      \/ (pieceType = "r" /\ move.to[1] = BoardSize - 1))
                  THEN toUpperCase(pieceType) ELSE pieceType
    IN  [cell \in Cells |->
            IF \E k \in 1..Len(move.captured) : move.captured[k] = cell THEN Null
            ELSE IF cell = move.from THEN Null
            ELSE IF cell = move.to THEN placed
            ELSE board[cell]]

\* updateBoardState: the board after the move.
\* An updateBoardState that leaves the moved piece on its origin as well.
updateBoardStateCopies(board, move) ==
    LET pieceType == board[move.from]
        placed == IF (pieceType = "b" /\ move.to[1] = 0)
                     \/ (pieceType = "r" /\ move.to[1] = BoardSize - 1)
                  THEN toUpperCase(pieceType) ELSE pieceType
    IN  [cell \in Cells |->
            IF \E k \in 1..Len(move.captured) : move.captured[k] = cell THEN Null
            ELSE IF cell = move.to THEN placed
            ELSE board[cell]]

updateBoardState(board, move) ==
    LET pieceType == board[move.from]
        placed == IF (pieceType = "b" /\ move.to[1] = 0)
                     \/ (pieceType = "r" /\ move.to[1] = BoardSize - 1)
                  THEN toUpperCase(pieceType) ELSE pieceType
    IN  [cell \in Cells |->
            IF \E k \in 1..Len(move.captured) : move.captured[k] = cell THEN Null
            ELSE IF cell = move.from THEN Null
            ELSE IF cell = move.to THEN placed
            ELSE board[cell]]

\* checkWinCondition, a colour without pieces not counted as without moves.
checkWinConditionBlockedOnly(board, nextPlayerColor) ==
    LET opponentColor  == IF nextPlayerColor = "b" THEN "r" ELSE "b"
        opponentPieces ==
            Cardinality({x \in Cells : toLowerCase(board[x]) = opponentColor})
        nextPieces ==
            Cardinality({x \in Cells : toLowerCase(board[x]) = nextPlayerColor})
    IN  IF opponentPieces = 0 THEN nextPlayerColor
        ELSE IF nextPieces > 0
                /\ findAllPossibleMoves(board, nextPlayerColor) = {}
        THEN opponentColor
        ELSE Null

\* checkWinCondition counting pieces only.
checkWinConditionPiecesOnly(board, nextPlayerColor) ==
    LET opponentColor  == IF nextPlayerColor = "b" THEN "r" ELSE "b"
        opponentPieces ==
            Cardinality({x \in Cells : toLowerCase(board[x]) = opponentColor})
        nextPieces ==
            Cardinality({x \in Cells : toLowerCase(board[x]) = nextPlayerColor})
    IN  IF opponentPieces = 0 THEN nextPlayerColor
        ELSE IF nextPieces = 0 THEN opponentColor
        ELSE Null

\* checkWinCondition: the winning colour, or Null.
checkWinCondition(board, nextPlayerColor) ==
    LET opponentColor  == IF nextPlayerColor = "b" THEN "r" ELSE "b"
        opponentPieces ==
            Cardinality({x \in Cells : toLowerCase(board[x]) = opponentColor})
    IN  IF opponentPieces = 0 THEN nextPlayerColor
        ELSE IF findAllPossibleMoves(board, nextPlayerColor) = {}
        THEN opponentColor
        ELSE Null

\* ----------------------------------------- queue server: rules engine
Abs(x)  == IF x < 0 THEN 0 - x ELSE x
Sign(x) == IF x < 0 THEN 0 - 1 ELSE IF x > 0 THEN 1 ELSE 0

\* createInitialBoard filling two rows a side.
createInitialBoardTwoRows ==
    [cell \in Cells |->
        IF cell[1] \in 6..7 /\ (cell[1] + cell[2]) % 2 = 1 THEN "b"
        ELSE IF cell[1] \in 0..1 /\ (cell[1] + cell[2]) % 2 = 1 THEN "r"
        ELSE Null]

\* createInitialBoard
createInitialBoard ==
    [cell \in Cells |->
        IF cell[1] >= 5 /\ (cell[1] + cell[2]) % 2 = 1 THEN "b"
        ELSE IF cell[1] < 3 /\ (cell[1] + cell[2]) % 2 = 1 THEN "r"
        ELSE Null]

\* isValidCapture, king: the while loop from (row, col) towards `to`.
RECURSIVE KingPathValid(_, _, _, _, _, _, _, _)
KingPathValid(board, row, col, rowStep, colStep, to, playerColor, foundCapture) ==
    IF ~(row # to[1] /\ col # to[2]) THEN foundCapture
    ELSE IF board[<<row, col>>] # Null
    THEN IF foundCapture THEN FALSE
         ELSE IF toLowerCase(board[<<row, col>>]) = playerColor THEN FALSE
         ELSE KingPathValid(board, row + rowStep, col + colStep, rowStep,
                            colStep, to, playerColor, TRUE)
    ELSE KingPathValid(board, row + rowStep, col + colStep, rowStep, colStep,
                       to, playerColor, foundCapture)

\* isValidCapture without the scan of the king's path.
isValidCaptureNoScan(board, from, to, playerColor, isKing) ==
    LET captureRow == (from[1] + to[1]) \div 2
        captureCol == (from[2] + to[2]) \div 2
        capturedPiece == board[<<captureRow, captureCol>>]
    IN  IF capturedPiece = Null \/ toLowerCase(capturedPiece) = playerColor
        THEN FALSE
        ELSE IF isKing THEN TRUE
        ELSE Abs(to[1] - from[1]) = 2

\* isValidCapture
isValidCapture(board, from, to, playerColor, isKing) ==
    LET captureRow == (from[1] + to[1]) \div 2
        captureCol == (from[2] + to[2]) \div 2
        capturedPiece == board[<<captureRow, captureCol>>]
    IN  IF capturedPiece = Null \/ toLowerCase(capturedPiece) = playerColor
        THEN FALSE
        ELSE IF isKing
        THEN KingPathValid(board, from[1] + Sign(to[1] - from[1]),
                           from[2] + Sign(to[2] - from[2]),
                           Sign(to[1] - from[1]), Sign(to[2] - from[2]), to,
                           playerColor, FALSE)
        ELSE Abs(to[1] - from[1]) = 2

\* An isValidMove whose one-row move of a man may go either way.
isValidMoveEitherWay(board, from, to, playerColor) ==
    LET piece  == board[from]
        isKing == piece = toUpperCase(piece)
        rowDistance == Abs(to[1] - from[1])
        colDistance == Abs(to[2] - from[2])
    IN  IF piece = Null \/ toLowerCase(piece) # playerColor THEN FALSE
        ELSE IF board[to] # Null THEN FALSE
        ELSE IF rowDistance # colDistance THEN FALSE
        ELSE IF rowDistance = 1 THEN TRUE
        ELSE isValidCapture(board, from, to, playerColor, isKing)

\* isValidMove
\* An isValidMove without the comparison of the two distances.
isValidMoveAnyDirection(board, from, to, playerColor) ==
    LET piece  == board[from]
        isKing == piece = toUpperCase(piece)
        rowDistance == Abs(to[1] - from[1])
    IN  IF piece = Null \/ toLowerCase(piece) # playerColor THEN FALSE
        ELSE IF board[to] # Null THEN FALSE
        ELSE IF rowDistance = 1
        THEN IF ~isKing
             THEN to[1] - from[1] = (IF playerColor = "b" THEN 0 - 1 ELSE 1)
             ELSE TRUE
        ELSE isValidCapture(board, from, to, playerColor, isKing)

isValidMove(board, from, to, playerColor) ==
    LET piece  == board[from]
        isKing == piece = toUpperCase(piece)
        rowDistance == Abs(to[1] - from[1])
        colDistance == Abs(to[2] - from[2])
    IN  IF piece = Null \/ toLowerCase(piece) # playerColor THEN FALSE
        ELSE IF board[to] # Null THEN FALSE
        ELSE IF rowDistance # colDistance THEN FALSE
        ELSE IF rowDistance = 1
        THEN IF ~isKing
             THEN to[1] - from[1] = (IF playerColor = "b" THEN 0 - 1 ELSE 1)
             ELSE TRUE
        ELSE isValidCapture(board, from, to, playerColor, isKing)

\* A capture object of the queue server.
Capture(row, col, r, c, opponentPos) ==
    [from |-> <<row, col>>, to |-> <<r, c>>, captured |-> opponentPos]

\* findCapturesForPiece, king: the while loop of one direction; opponentPos
\* is <<>> for null.
RECURSIVE KingCaptures(_, _, _, _, _, _, _, _, _)
KingCaptures(board, row, col, rowDir, colDir, r, c, playerColor, opponentPos) ==
    IF ~InBoard(r, c) THEN {}
    ELSE IF board[<<r, c>>] # Null
    THEN IF opponentPos = <<>> /\ toLowerCase(board[<<r, c>>]) # playerColor
         THEN KingCaptures(board, row, col, rowDir, colDir, r + rowDir,
                           c + colDir, playerColor, <<r, c>>)
         ELSE {}
    ELSE (IF opponentPos # <<>> THEN {Capture(row, col, r, c, opponentPos)}
          ELSE {})
         \cup KingCaptures(board, row, col, rowDir, colDir, r + rowDir,
                           c + colDir, playerColor, opponentPos)

\* findCapturesForPiece
findCapturesForPiece(board, row, col) ==
    LET piece       == board[<<row, col>>]
        playerColor == toLowerCase(piece)
        isKing      == piece = toUpperCase(piece)
    IN  IF piece = Null THEN {}
        ELSE IF isKing
        THEN UNION {KingCaptures(board, row, col, d[1], d[2], row + d[1],
                                 col + d[2], playerColor, <<>>) :
                    d \in Directions}
        ELSE {Capture(row, col, row + 2 * d[1], col + 2 * d[2],
                      <<row + d[1], col + d[2]>>) :
                d \in {e \in Directions :
                         /\ InBoard(row + 2 * e[1], col + 2 * e[2])
                         /\ board[<<row + 2 * e[1], col + 2 * e[2]>>] = Null
                         /\ board[<<row + e[1], col + e[2]>>] # Null
                         /\ toLowerCase(board[<<row + e[1], col + e[2]>>])
                               # playerColor}}

\* findAllCaptures
findAllCaptures(board, playerColor) ==
    UNION {findCapturesForPiece(board, cell[1], cell[2]) :
           cell \in {x \in Cells : toLowerCase(board[x]) = playerColor}}

\* applyMove: moveResult.isCapture
applyMoveIsCapture(from, to) == Abs(to[1] - from[1]) >= 2

\* applyMove: the board after the move.
applyMove(board, from, to, playerColor) ==
    LET piece   == board[from]
        capture == <<(from[1] + to[1]) \div 2, (from[2] + to[2]) \div 2>>
        lastRow == IF playerColor = "b" THEN 0 ELSE BoardSize - 1
    IN  [cell \in Cells |->
            IF cell = to
            THEN IF to[1] = lastRow /\ piece = playerColor
                 THEN toUpperCase(piece) ELSE piece
            ELSE IF applyMoveIsCapture(from, to) /\ cell = capture THEN Null
            ELSE IF cell = from THEN Null
            ELSE board[cell]]

\* isGameOver, for the colour of gameState.currentTurn.
isGameOver(board, playerColor) ==
    LET mine == {x \in Cells : toLowerCase(board[x]) = playerColor}
        CanStep(x) ==
            LET isKing == board[x] = toUpperCase(board[x])
                directions == IF isKing THEN {0 - 1, 1}
                              ELSE {IF playerColor = "b" THEN 0 - 1 ELSE 1}
            IN  \E rowDir \in directions, colDir \in {0 - 1, 1} :
                   /\ InBoard(x[1] + rowDir, x[2] + colDir)
                   /\ board[<<x[1] + rowDir, x[2] + colDir>>] = Null
    IN  IF mine = {} THEN TRUE
        ELSE ~\E x \in mine :
                findCapturesForPiece(board, x[1], x[2]) # {} \/ CanStep(x)

\* ------------------------------------------------- lobby: one game
\* The colour of players[index]: the host (index 0) plays 'b'.
ColourOf(index) == IF index = 0 THEN "b" ELSE "r"

\* The ply of a game given as a position rather than played from creation.
MidGame == 0 - 1

\* gameData.board as the acceptWager handler writes it.
LobbyInitialBoard ==
    [cell \in Cells |->
        IF cell[1] \in {0, 2} /\ cell[2] % 2 = 1 THEN "r"
        ELSE IF cell[1] = 1 /\ cell[2] % 2 = 0 THEN "r"
        ELSE IF cell[1] \in {5, 7} /\ cell[2] % 2 = 0 THEN "b"
        ELSE IF cell[1] = 6 /\ cell[2] % 2 = 1 THEN "b"
        ELSE Null]

\* The board and turn fields of gameData.  winner is the colour handleGameOver
\* was called with, chain the landing cell of a capture that left a further
\* capture (<<>> when the last move passed the turn), ply the number of
\* moves applied since creation.
NewLobbyGame ==
    [board |-> LobbyInitialBoard, turnIndex |-> 0, isFinished |-> FALSE,
     winner |-> Null, chain |-> <<>>, ply |-> 0]

\* The origins and destinations a client may send: those of the raw moves
\* of any piece on the board, legal or not.
MoveInputs(board) ==
    UNION {{<<m.from, m.to>> : m \in calculateRawMoves(board, x[1], x[2])} :
           x \in {y \in Cells : board[y] # Null}}

\* A game is followed for MaxPly moves from its creation and for one move
\* from a given position, and in both cases to the end of a capture chain.
MayMove(game) == game.ply < MaxPly \/ game.chain # <<>>
NextPly(ply)  == IF ply = MidGame \/ ply >= MaxPly THEN MaxPly ELSE ply + 1

\* furtherJumps without the filter on isJump.
furtherJumpsAnyMove(board, attemptedMove) ==
    IF attemptedMove.isJump
    THEN calculateRawMoves(board, attemptedMove.to[1], attemptedMove.to[2])
    ELSE {}

\* furtherJumps in handleMakeMove, on the board after the move.
furtherJumps(board, attemptedMove) ==
    IF attemptedMove.isJump
    THEN {m \in calculateRawMoves(board, attemptedMove.to[1],
                                  attemptedMove.to[2]) : m.isJump}
    ELSE {}

\* handleMakeMove, with the guard and the isFinished assignment of the
\* handleGameOver it calls; sender is the index in players of the socket's
\* user.
handleMakeMove(sender, from, to) ==
    LET game == lobbyGame
        currentPlayer == game.turnIndex
        legalMoves == findAllPossibleMoves(game.board, ColourOf(currentPlayer))
        found == {m \in legalMoves : m.from = from /\ m.to = to}
        attemptedMove == CHOOSE m \in found : TRUE
        board1 == updateBoardState(game.board, attemptedMove)
        further == furtherJumps(board1, attemptedMove)
        nextIndex == 1 - game.turnIndex
        winnerColor == checkWinCondition(board1, ColourOf(nextIndex))
    IN
    /\ MayMove(game)
    /\ lobbyGame' =
          IF sender # game.turnIndex \/ found = {} THEN game
          ELSE IF further # {}
          THEN [game EXCEPT !.board = board1, !.chain = to,
                            !.ply = NextPly(@)]
          ELSE [game EXCEPT !.board = board1, !.chain = <<>>,
                            !.ply = NextPly(@), !.turnIndex = nextIndex,
                            !.isFinished = @ \/ winnerColor # Null,
                            !.winner = IF ~game.isFinished /\ winnerColor # Null
                                       THEN winnerColor ELSE @]
    /\ UNCHANGED <<dbVars, calls, lobbyVars, queueVars, queueGame>>

\* ------------------------------------------- queue server: one game
\* The board, turn and lastMove fields of createGameState's result; the
\* players have the ids 1 and 2, 0 is null.  inTurn counts the moves applied
\* since currentTurn last changed its value.
NewQueueGame ==
    [board |-> createInitialBoard, currentTurn |-> 0, lastMove |-> <<>>,
     inTurn |-> 0, chain |-> <<>>, ply |-> 0]

\* playerColor in handleGameMove: players[0] plays 'b'.
PlayerColor(id) == IF id = 1 THEN "b" ELSE "r"

\* this.isCaptureMove is not defined anywhere: calling it throws a TypeError
\* that handleGameMove's catch turns into 'Error processing move'.
isCaptureMoveThrows == TRUE

\* findRegularMoves, king: the while loop of one direction.
RECURSIVE RegularSlides(_, _, _, _, _, _, _)
RegularSlides(board, row, col, rowDir, colDir, r, c) ==
    IF ~(InBoard(r, c) /\ board[<<r, c>>] = Null) THEN {}
    ELSE {[from |-> <<row, col>>, to |-> <<r, c>>]}
         \cup RegularSlides(board, row, col, rowDir, colDir, r + rowDir,
                            c + colDir)

\* findRegularMoves
findRegularMoves(board, row, col) ==
    LET piece       == board[<<row, col>>]
        playerColor == toLowerCase(piece)
        isKing      == piece = toUpperCase(piece)
        forward     == IF playerColor = "b" THEN 0 - 1 ELSE 1
    IN  IF piece = Null THEN {}
        ELSE IF isKing
        THEN UNION {RegularSlides(board, row, col, d[1], d[2], row + d[1],
                                  col + d[2]) : d \in Directions}
        ELSE {[from |-> <<row, col>>, to |-> <<row + forward, col + colDiff>>] :
                colDiff \in {e \in {0 - 1, 1} :
                               /\ InBoard(row + forward, col + e)
                               /\ board[<<row + forward, col + e>>] = Null}}

\* handleAvailableMovesRequest: the list emitted as 'availableMoves'; none
\* when the answer is the error 'Not your turn'.
handleAvailableMovesRequest(gameState, sender, position) ==
    LET playerColor == PlayerColor(sender)
        piece       == gameState.board[position]
        captures    == findCapturesForPiece(gameState.board, position[1],
                                            position[2])
    IN  IF gameState.currentTurn # sender THEN {}
        ELSE IF piece = Null \/ toLowerCase(piece) # playerColor THEN {}
        ELSE IF captures # {} THEN captures
        ELSE findRegularMoves(gameState.board, position[1], position[2])

\* A handleGameMove that calls applyMove before the capture check.
handleGameMoveApplyFirst(sender, from, to) ==
    LET gameState == queueGame
        playerColor == PlayerColor(sender)
        chained == /\ gameState.lastMove # <<>>
                   /\ gameState.lastMove[1] = sender
                   /\ from # gameState.lastMove[2]
        availableCaptures == findAllCaptures(gameState.board, playerColor)
        valid ==
            /\ gameState.currentTurn = sender
            /\ ~chained
            /\ isValidMove(gameState.board, from, to, playerColor)
        accepted == valid /\ ~(availableCaptures # {} /\ isCaptureMoveThrows)
    IN
    /\ MayMove(gameState)
    /\ HasFree
    /\ queueGame' =
          IF valid
          THEN [gameState EXCEPT
                   !.board = applyMove(gameState.board, from, to, playerColor),
                   !.inTurn = @ + 1, !.ply = NextPly(@)]
          ELSE gameState
    /\ calls' = IF accepted
                THEN [calls EXCEPT ![Free] =
                        [Idle EXCEPT !.op = "gameMove", !.u = sender,
                                     !.loc = <<from, to>>]]
                ELSE calls
    /\ UNCHANGED <<balance, stats, faults, lobbyVars, queueVars, lobbyGame>>

\* handleGameMove up to its await of GameMatch.findByIdAndUpdate: the checks
\* and applyMove.  A rejected move returns with nothing changed.
handleGameMove(sender, from, to) ==
    LET gameState == queueGame
        playerColor == PlayerColor(sender)
        chained == /\ gameState.lastMove # <<>>
                   /\ gameState.lastMove[1] = sender
                   /\ from # gameState.lastMove[2]
        availableCaptures == findAllCaptures(gameState.board, playerColor)
        accepted ==
            /\ gameState.currentTurn = sender
            /\ ~chained
            /\ ~(availableCaptures # {} /\ isCaptureMoveThrows)
            /\ isValidMove(gameState.board, from, to, playerColor)
    IN
    /\ MayMove(gameState)
    /\ HasFree
    /\ IF accepted
       THEN /\ queueGame' =
                 [gameState EXCEPT
                     !.board = applyMove(gameState.board, from, to, playerColor),
                     !.inTurn = @ + 1, !.ply = NextPly(@)]
            /\ calls' = [calls EXCEPT ![Free] =
                 [Idle EXCEPT !.op = "gameMove", !.u = sender,
                              !.loc = <<from, to>>]]
       ELSE UNCHANGED <<queueGame, calls>>
    /\ UNCHANGED <<balance, stats, faults, lobbyVars, queueVars, lobbyGame>>

\* handleGameMove from the completion of GameMatch.findByIdAndUpdate.  A
\* failed write throws into the catch; a board that isGameOver leads to
\* handleGameOver(gameState), which throws on this.determineWinner after its
\* first await and changes nothing.
gameMoveSaved(h, ok) ==
    LET c == calls[h]
        gameState == queueGame
        to == c.loc[2]
        isCapture == applyMoveIsCapture(c.loc[1], to)
        moreCapturesAvailable ==
            isCapture /\ findCapturesForPiece(gameState.board, to[1], to[2]) # {}
        other == 3 - c.u
    IN
    /\ c.op = "gameMove"
    /\ MayFail(ok)
    /\ faults' = Count(ok)
    /\ calls' = [calls EXCEPT ![h] = Idle]
    /\ queueGame' =
          IF ~ok THEN gameState
          ELSE IF moreCapturesAvailable
          THEN [gameState EXCEPT !.lastMove = <<c.u, to>>]
          ELSE [gameState EXCEPT !.lastMove = <<>>, !.currentTurn = other,
                                 !.inTurn = IF gameState.currentTurn = other
                                            THEN @ ELSE 0]
    /\ UNCHANGED <<balance, stats, lobbyVars, queueVars, lobbyGame>>

\* ------------------------------------------------------ positions
\* The dark squares, numbered 1..32 row by row: those a piece can stand on.
NumDark == (BoardSize * BoardSize) \div 2
Dark(i) ==
    LET row == (i - 1) \div (BoardSize \div 2)
        k == (i - 1) % (BoardSize \div 2)
    IN  <<row, 2 * k + (IF row % 2 = 0 THEN 1 ELSE 0)>>

\* A placement <<i, piece>> puts the piece on the dark square Dark(i), in the
\* columns 0..MaxCol; <<0, Null>> places nothing.  Placements are kept in
\* increasing order of square.
\* A man is never on the row where it would have been crowned.
Placeable(i, piece) ==
    /\ Dark(i)[2] <= MaxCol
    /\ ~(piece = "b" /\ Dark(i)[1] = 0)
    /\ ~(piece = "r" /\ Dark(i)[1] = BoardSize - 1)

Placement ==
    {<<0, Null>>} \cup {x \in (1..NumDark) \X Pieces : Placeable(x[1], x[2])}
Ordered(pl) ==
    /\ \A i \in 1..(MaxPieces - 1) :
          pl[i][1] = 0 \/ pl[i][1] < pl[i + 1][1]
    /\ Cardinality({i \in 1..MaxPieces : pl[i][2] \in {"B", "R"}}) <= MaxKings

BoardOf(pl) ==
    [cell \in Cells |->
        IF \E i \in DOMAIN pl : pl[i][1] # 0 /\ Dark(pl[i][1]) = cell
        THEN LET i == CHOOSE j \in DOMAIN pl :
                          pl[j][1] # 0 /\ Dark(pl[j][1]) = cell
             IN  pl[i][2]
        ELSE Null]

\* A lobby game given as a position: any board of at most MaxPieces pieces
\* in the columns 0..MaxCol, either player to move; the player who has moved
\* last has a piece.
InitLobbyPosition ==
    \E pl \in [1..MaxPieces -> Placement], turn \in {0, 1} :
        /\ Ordered(pl)
        /\ \E i \in 1..MaxPieces : toLowerCase(pl[i][2]) = ColourOf(1 - turn)
        /\ lobbyGame = [NewLobbyGame EXCEPT !.board = BoardOf(pl),
                                            !.turnIndex = turn,
                                            !.ply = MidGame]

\* A lobby game given as a position of MenPerSide men of each colour in the
\* columns 0..MaxCol, either player to move.
InitLobbyMen ==
    \E pl \in [1..(2 * MenPerSide) ->
                  {x \in (1..NumDark) \X Colours : Placeable(x[1], x[2])}],
       turn \in {0, 1} :
        /\ \A i \in 1..(2 * MenPerSide - 1) : pl[i][1] < pl[i + 1][1]
        /\ Cardinality({i \in DOMAIN pl : pl[i][2] = "b"}) = MenPerSide
        /\ lobbyGame = [NewLobbyGame EXCEPT !.board = BoardOf(pl),
                                            !.turnIndex = turn,
                                            !.ply = MidGame]

\* A queue-server game as created, with the turn given to a player.
InitQueueTurn ==
    \E turn \in {1, 2} :
        queueGame = [NewQueueGame EXCEPT !.currentTurn = turn]

\* ------------------------------------------------------ specification
NewStats(xp) == [wins |-> 0, losses |-> 0, rankingPoints |-> DefaultRankingPoints,
                 xp |-> xp, level |-> DefaultLevel, totalWinnings |-> 0]

InitDb ==
    /\ balance = [u \in Users |-> StartBalance]
    /\ stats = [u \in Users |-> NewStats(XP_PER_LEVEL - WINNER_XP)]
    /\ calls = [h \in Slots |-> Idle]
    /\ faults = 0

InitLobby ==
    /\ onlineUsers = {}
    /\ openWagers = <<>>
    /\ activeGames = <<>>
    /\ nextRoom = 1
    /\ nextWager = 1
    /\ settled = [g \in 1..MaxGames |-> [win |-> 0, loss |-> 0, failed |-> FALSE]]

InitQueue ==
    /\ playerSockets = {}
    /\ socketUser = [u \in Users |-> 0]
    /\ matchmakingQueues = [b \in Stakes |-> <<>>]
    /\ gsActiveGames = <<>>
    /\ nextMatch = 1
    /\ staked = [m \in 1..MaxMatches |-> 0]
    /\ payouts = [m \in 1..MaxMatches |-> <<>>]
    /\ applied = [u \in Users |-> 0]
    /\ recharges = 0

\* Both servers hold one game as created.
InitRules ==
    /\ lobbyGame = NewLobbyGame
    /\ queueGame = NewQueueGame

Init == InitDb /\ InitLobby /\ InitQueue /\ InitRules

\* The lobby server's events sent by the identities of S.
LobbyEvents(S) ==
    \/ \E u \in S : Connect(u)
    \/ \E u \in S, b \in Stakes : HostWageredGame(u, b)
    \/ \E u \in S : CancelWager(u)
    \/ \E u, host \in S : AcceptWager(u, host)
    \/ \E u \in S, g \in 1..MaxGames,
          r \in {"illegal", "jump", "pass", "win"} : MakeMove(u, g, r)
    \/ \E u \in S : Disconnect(u)

\* The completions of the database operations the lobby's handlers await.
LobbyCompletions ==
    \/ \E h \in Slots, ok \in BOOLEAN : HostWageredGameResume(h, ok)
    \/ \E h \in Slots, ok \in BOOLEAN : AcceptWagerResume(h, ok)
    \/ \E h \in Slots, x \in Users, ok \in BOOLEAN : AcceptWagerDebit(h, x, ok)
    \/ \E h \in Slots, x \in {"winner", "loser"}, ok \in BOOLEAN :
          GameOverUpdate(h, x, ok)
    \/ \E h \in Slots, ok \in BOOLEAN : LevelUpdate(h, ok)

\* The whole lobby server, two identities sending events.
NextLobby == LobbyEvents(Pair) \/ LobbyCompletions

SpecLobby == Init /\ [][NextLobby]_vars

\* The wager lobby alone, every identity sending events, no operation failing:
\* connection, hostWageredGame, cancelWager and acceptWager.
NextWagers ==
    \/ \E u \in Users : Connect(u)
    \/ \E u \in Users, b \in Stakes : HostWageredGame(u, b)
    \/ \E u \in Users : CancelWager(u)
    \/ \E u, host \in Users : AcceptWager(u, host)
    \/ \E h \in Slots : HostWageredGameResume(h, TRUE)
    \/ \E h \in Slots : AcceptWagerResume(h, TRUE)
    \/ \E h \in Slots, x \in Users : AcceptWagerDebit(h, x, TRUE)

SpecWagers == Init /\ [][NextWagers]_vars

\* The queue server's events sent by the identities of S.
QueueEvents(S) ==
    \/ \E u \in S : Connection(u)
    \/ \E u \in S, b \in BetAmounts : handleFindMatch(u, b)
    \/ \E u \in S : handleCancelFindMatch(u)
    \/ \E u \in S, b \in Stakes, r \in 1..MaxRooms :
          handleCreatePrivateRoom(u, b, r)
    \/ \E u \in S, r \in 1..MaxRooms : handleJoinPrivateRoom(u, r)
    \/ \E u \in S : handleSurrender(u)
    \/ \E u \in S : handleDisconnect(u)

\* The completions of the database operations the queue server awaits.
QueueCompletions ==
    \/ \E h \in Slots, ok \in BOOLEAN : createMatchSaved(h, ok)
    \/ \E h \in Slots, i \in 1..2, ok \in BOOLEAN : deductBet(h, i, ok)
    \/ \E h \in Slots, ok \in BOOLEAN : handleGameOver(h, ok)

\* The whole queue server, two identities sending events.
NextQueue == QueueEvents(Pair) \/ QueueCompletions

SpecQueue == Init /\ [][NextQueue]_vars

\* Everything that writes a balance outside the lobby: match formation and
\* settlement in the queue server, and the approval of recharges.
NextLedger ==
    \/ \E u \in Pair : Connection(u)
    \/ \E u \in Pair, b \in Stakes : handleFindMatch(u, b)
    \/ \E u \in Pair : handleSurrender(u)
    \/ \E u \in Pair, a \in 1..MaxStake : processPaymentRequest(u, a)
    \/ \E h \in Slots, ok \in BOOLEAN : paymentStep(h, ok)
    \/ QueueCompletions

SpecLedger == Init /\ [][NextLedger]_vars

\* The moves a client may send for a board, by either player.
LobbyMoves ==
    \E sender \in {0, 1},
       x \in (IF MayMove(lobbyGame) THEN MoveInputs(lobbyGame.board) ELSE {}) :
        handleMakeMove(sender, x[1], x[2])

GameMoves ==
    \E sender \in {1, 2},
       x \in (IF MayMove(queueGame) THEN MoveInputs(queueGame.board) ELSE {}) :
        handleGameMove(sender, x[1], x[2])

QueueMoves ==
    \/ GameMoves
    \/ \E h \in Slots, ok \in BOOLEAN : gameMoveSaved(h, ok)

\* Both servers' games played from creation; no makeMove of the queue server
\* reaches the write whose completion gameMoveSaved is.
NextGames == LobbyMoves \/ GameMoves
SpecGames == Init /\ [][NextGames]_vars

\* The lobby's game from any position of at most MaxPieces pieces.
InitPositions ==
    /\ InitDb /\ InitLobby /\ InitQueue
    /\ InitLobbyPosition
    /\ queueGame = NewQueueGame
SpecPositions == InitPositions /\ [][LobbyMoves]_vars

\* The lobby's game from any position of MenPerSide men a side.
InitChains ==
    /\ InitDb /\ InitLobby /\ InitQueue
    /\ InitLobbyMen
    /\ queueGame = NewQueueGame
SpecChains == InitChains /\ [][LobbyMoves]_vars

\* The queue server's game from creation with the turn given to a player.
InitTurn ==
    /\ InitDb /\ InitLobby /\ InitQueue
    /\ lobbyGame = NewLobbyGame
    /\ InitQueueTurn
SpecTurn == InitTurn /\ [][QueueMoves]_vars


\* Matchmaking and private rooms of the queue server up to the registration
\* of the game, every identity sending events and no database operation
\* failing.
NextMatchmaking ==
    \/ \E u \in Users : Connection(u)
    \/ \E u \in Users, b \in BetAmounts : handleFindMatch(u, b)
    \/ \E u \in Users : handleCancelFindMatch(u)
    \/ \E u \in Users, b \in Stakes, r \in 1..MaxRooms :
          handleCreatePrivateRoom(u, b, r)
    \/ \E u \in Users, r \in 1..MaxRooms : handleJoinPrivateRoom(u, r)
    \/ \E h \in Slots : createMatchSaved(h, TRUE)
    \/ \E h \in Slots, i \in 1..2 : deductBet(h, i, TRUE)

SpecMatchmaking == Init /\ [][NextMatchmaking]_vars


\* The two servers are separate processes and a game lives in one of them:
\* either the lobby holds a game as created and the queue server none, or
\* the queue server holds a game as created, its turn null or given to a
\* player, and the lobby none.  The server without a game has an empty
\* board, for which no makeMove names a piece.
EmptyBoard == [cell \in Cells |-> Null]

InitMoves ==
    /\ InitDb /\ InitLobby /\ InitQueue
    /\ \/ /\ lobbyGame = NewLobbyGame
          /\ queueGame = [NewQueueGame EXCEPT !.board = EmptyBoard]
       \/ /\ lobbyGame = [NewLobbyGame EXCEPT !.board = EmptyBoard]
          /\ \E turn \in 0..2 :
                queueGame = [NewQueueGame EXCEPT !.currentTurn = turn]

NextMoves == LobbyMoves \/ QueueMoves
SpecMoves == InitMoves /\ [][NextMoves]_vars


\* checkLevelUp(io, user) for the document of user u as stored: one
\* findByIdAndUpdate that sets level and xp when xp has reached the
\* threshold, and nothing otherwise.
checkLevelUp(u) ==
    /\ stats' = IF LevelsUp(stats[u].xp)
                THEN [stats EXCEPT ![u].level = stats[u].level + 1,
                                   ![u].xp = stats[u].xp % XP_PER_LEVEL]
                ELSE stats
    /\ UNCHANGED <<balance, calls, faults, lobbyVars, queueVars, rulesVars>>

\* The xp a user can have accumulated from WINNER_XP and LOSER_XP increments
\* whose level-up was not applied, up to MaxXpSteps times LOSER_XP.
XpValues == {k * LOSER_XP : k \in 0..MaxXpSteps}

InitLevels ==
    /\ balance = [u \in Users |-> StartBalance]
    /\ stats \in [Users -> {NewStats(xp) : xp \in XpValues}]
    /\ calls = [h \in Slots |-> Idle]
    /\ faults = 0
    /\ InitLobby /\ InitQueue /\ InitRules

NextLevels == \E u \in Users : checkLevelUp(u)
SpecLevels == InitLevels /\ [][NextLevels]_vars


\* What a client may send besides: a piece and any square at most MaxReach
\* rows and columns away from it, on either colour of the checkerboard.
NearInputs(board) ==
    {<<from, to>> \in {y \in Cells : board[y] # Null} \X Cells :
        /\ to # from
        /\ Abs(to[1] - from[1]) <= MaxReach
        /\ Abs(to[2] - from[2]) <= MaxReach}

AnyInputs(game) ==
    IF MayMove(game) THEN MoveInputs(game.board) \cup NearInputs(game.board)
    ELSE {}

NextSquares ==
    \/ \E sender \in {0, 1}, x \in AnyInputs(lobbyGame) :
          handleMakeMove(sender, x[1], x[2])
    \/ \E sender \in {1, 2}, x \in AnyInputs(queueGame) :
          handleGameMove(sender, x[1], x[2])
    \/ \E h \in Slots, ok \in BOOLEAN : gameMoveSaved(h, ok)

SpecSquares == InitMoves /\ [][NextSquares]_vars


\* The queue server's matches formed, surrendered and abandoned, under fair
\* scheduling of the database: an operation a suspended handler awaits
\* completes, with either outcome, and the handler runs on.
QueueCompletion(h) ==
    \/ \E ok \in BOOLEAN : createMatchSaved(h, ok)
    \/ \E i \in 1..2, ok \in BOOLEAN : deductBet(h, i, ok)
    \/ \E ok \in BOOLEAN : handleGameOver(h, ok)

NextForfeit ==
    \/ \E u \in Pair : Connection(u)
    \/ \E u \in Pair, b \in Stakes : handleFindMatch(u, b)
    \/ \E u \in Pair : handleSurrender(u)
    \/ \E u \in Pair : handleDisconnect(u)
    \/ \E h \in Slots : QueueCompletion(h)

SpecForfeit ==
    /\ Init /\ [][NextForfeit]_vars
    /\ \A h \in Slots : WF_vars(QueueCompletion(h))


\* The queue server's matchmaking and private rooms with any betAmount a
\* client may send, a negative one included.
NextRooms ==
    \/ \E u \in Users : Connection(u)
    \/ \E u \in Users, b \in BetAmounts : handleFindMatch(u, b)
    \/ \E u \in Users : handleCancelFindMatch(u)
    \/ \E u \in Users, b \in BetAmounts, r \in 1..MaxRooms :
          handleCreatePrivateRoom(u, b, r)
    \/ \E u \in Users, r \in 1..MaxRooms : handleJoinPrivateRoom(u, r)
    \/ \E h \in Slots : createMatchSaved(h, TRUE)
    \/ \E h \in Slots, i \in 1..2 : deductBet(h, i, TRUE)

SpecRooms == Init /\ [][NextRooms]_vars


\* =============================================================== claims
\* ---------------------------------------------------------------- C1
\* C1: in the queue server, whatever the interleaving of the surrender and
\* disconnect events of a match's two players (also while handleGameOver is
\* suspended at an await), the prize of the match is credited at most once:
\* at most one of the winner writes of a match adds a prize above zero.
C1_PrizeCreditedOnce ==
    \A m \in 1..MaxMatches :
        Cardinality({i \in 1..Len(payouts[m]) : payouts[m][i][2] > 0}) <= 1

\* ---------------------------------------------------------------- C2
\* The handleGameOver calls of room g that are still running.
Settling(g) == \E h \in Slots : calls[h].op = "over" /\ calls[h].g = g

\* C2: in the lobby server, whatever the interleaving of a terminal makeMove
\* and the disconnects of the two players, the winner's update (pot, win,
\* rating, xp) and the loser's update (loss, rating, xp) are each applied at
\* most once per game, and exactly once when the game has been settled and
\* removed without a failed database write.
C2_SettledExactlyOnce ==
    \A g \in 1..MaxGames :
        /\ settled[g].win <= 1
        /\ settled[g].loss <= 1
        /\ (g < nextRoom /\ g \notin DOMAIN activeGames /\ ~Settling(g)
              /\ ~settled[g].failed)
           => (settled[g].win = 1 /\ settled[g].loss = 1)

\* A settlement is under way (both updates applied, the level-up write
\* pending) for a game whose two players have both disconnected.
C2_Witness ==
    \E g \in DOMAIN activeGames :
        /\ activeGames[g].isFinished
        /\ settled[g].win = 1 /\ settled[g].loss = 1
        /\ \A i \in 1..2 : activeGames[g].players[i] \notin onlineUsers

\* ---------------------------------------------------------------- C3
\* C3: in the lobby server at most one match is formed from an open wager
\* when two challengers accept it concurrently: no two games with different
\* challengers are built from the same wager.
C3_OneMatchPerWager ==
    \A g1, g2 \in DOMAIN activeGames :
        (g1 # g2 /\ activeGames[g1].players[2] # activeGames[g2].players[2])
        => activeGames[g1].wager # activeGames[g2].wager

\* ---------------------------------------------------------------- C4
\* C4: when a match formation (here acceptWager of the lobby server) ends
\* with exactly one of its two stake debits failed, both players' balances are back at their values from before the
\* debits and no game has been added.  (The step is the one that resolves
\* the second debit; pc "aborted" says the first one failed, a grown
\* `faults` that this one does.)
C4_PartialDebitCompensated ==
    [][\A h \in Slots :
          (/\ calls[h].op = "accept"
           /\ Cardinality(calls[h].pend) = 1
           /\ calls'[h] = Idle
           /\ (calls[h].pc = "aborted") # (faults' # faults))
          => /\ balance'[calls[h].v] = calls[h].loc[1]
             /\ balance'[calls[h].u] = calls[h].loc[2]
             /\ activeGames' = activeGames]_vars

\* ---------------------------------------------------------------- C5
\* C5: every stake debit meets a stored balance of at least the stake, so
\* no sequence of events drives a balance below zero.
C5_BalanceNeverNegative == \A u \in Users : balance[u] >= 0

\* ---------------------------------------------------------------- C6
\* C6: balance mutations of one identity are serialized: once deductBet,
\* the prize credit of handleGameOver and the recharge approvals that ran
\* (concurrently or not) have all finished, every stored balance is the
\* initial balance plus the sum of the deltas that were written.
C6_NoLostUpdate ==
    Quiescent => \A u \in Users : balance[u] = StartBalance + applied[u]

\* ---------------------------------------------------------------- C7
\* The operation x of the Promise.all of handler h completes in this step.
Resolves(h, x) ==
    /\ x \in calls[h].pend
    /\ calls'[h] # calls[h]
    /\ (calls'[h] = Idle \/ x \notin calls'[h].pend)

\* C7: in the lobby server an accepted wager of stake s takes exactly s from
\* each of the two players and the registered game's pot is 2*s; settling
\* the game adds exactly the pot to the winner's balance and leaves the
\* loser's balance alone.
C7_StakeAndPot ==
    [][/\ \A h \in Slots, x \in Users :
            (calls[h].op = "accept" /\ Resolves(h, x) /\ faults' = faults)
            => balance' = [balance EXCEPT ![x] = @ - calls[h].amt]
       /\ \A g \in DOMAIN activeGames' \ DOMAIN activeGames :
            \E h \in Slots :
               /\ calls[h].op = "accept" /\ calls'[h] = Idle
               /\ activeGames'[g].players = <<calls[h].v, calls[h].u>>
               /\ activeGames'[g].pot = 2 * calls[h].amt
       /\ \A h \in Slots :
            (calls[h].op = "over" /\ Resolves(h, "winner") /\ faults' = faults)
            => /\ balance' = [balance EXCEPT ![calls[h].u] = @ + calls[h].amt]
               /\ calls[h].g \in DOMAIN activeGames
                     => calls[h].amt = activeGames[calls[h].g].pot
       /\ \A h \in Slots :
            (calls[h].op = "over" /\ Resolves(h, "loser"))
            => balance' = balance]_vars

\* A game of pot 2*MaxStake has been settled: the winner holds the pot on
\* top of what the debit left, the loser what the debit left.
C7_Witness ==
    \E g \in DOMAIN activeGames, u, v \in Users :
        /\ activeGames[g].players = <<u, v>> /\ activeGames[g].isFinished
        /\ activeGames[g].pot = 2 * MaxStake
        /\ settled[g].win = 1
        /\ {balance[u], balance[v]} =
              {StartBalance - MaxStake, StartBalance + MaxStake}

\* ---------------------------------------------------------------- C8
\* C8: in the queue server every prize that handleGameOver credits for a
\* match equals the sum of the stakes that deductBet actually took from the
\* match's two players at formation.
C8_PrizeIsStakesDebited ==
    \A m \in 1..MaxMatches :
        \A i \in 1..Len(payouts[m]) : payouts[m][i][2] = staked[m]

\* A match of stake MaxStake has been settled: both stakes were debited and
\* the winner has been credited twice the stake.
C8_Witness ==
    \E m \in 1..MaxMatches :
        /\ staked[m] = 2 * MaxStake
        /\ Len(payouts[m]) >= 1
        /\ payouts[m][1][2] = 2 * MaxStake

\* ---------------------------------------------------------------- C9
\* The matchmaking queue entries of identity u.
QueueEntries(u) ==
    UNION {{<<b, i>> : i \in {k \in Indices(matchmakingQueues[b]) :
                                  matchmakingQueues[b][k] = u}} :
           b \in DOMAIN matchmakingQueues}

\* The games of the queue server's activeGames that identity u plays in.
GamesOf(u) == {i \in Indices(gsActiveGames) : InSeq(gsActiveGames[i].players, u)}

\* C9: in the queue server every identity is in at most one matchmaking
\* queue entry and in at most one game of activeGames, and never in a queue
\* and in a game at once, also when findMatch events arrive while
\* createMatch is suspended.
C9_OneQueueEntryOrGame ==
    \A u \in Users :
        /\ Cardinality(QueueEntries(u)) <= 1
        /\ Cardinality(GamesOf(u)) <= 1
        /\ ~(QueueEntries(u) # {} /\ GamesOf(u) # {})

\* --------------------------------------------------------------- C10
\* C10: in the lobby server no identity is a player of two games of
\* activeGames at once, and none holds an open wager while it is a player of
\* a game.
C10_OneGamePerIdentity ==
    \A u \in Users :
        /\ Cardinality({g \in DOMAIN activeGames : PlaysIn(g, u)}) <= 1
        /\ ~(u \in DOMAIN openWagers /\ RoomOf(u) # 0)

\* ============================================================ the rules
\* The cell k steps from cell in direction d.
Step(cell, d, k) == <<cell[1] + k * d[1], cell[2] + k * d[2]>>

\* The piece on cell can capture along direction d, landing i steps away: a
\* man jumps an adjacent enemy piece to the empty cell right behind it; a king
\* jumps the one enemy piece on its way, j steps away, every other cell up to
\* and including the landing cell being empty.
CaptureAlong(board, cell, d, i) ==
    LET colour == toLowerCase(board[cell])
        enemy  == OtherColour(colour)
    IN  /\ Step(cell, d, i) \in Cells
        /\ board[Step(cell, d, i)] = Null
        /\ IF board[cell] \in Colours
           THEN i = 2 /\ toLowerCase(board[Step(cell, d, 1)]) = enemy
           ELSE \E j \in 1..(i - 1) :
                   /\ toLowerCase(board[Step(cell, d, j)]) = enemy
                   /\ \A k \in 1..(i - 1) : k # j => board[Step(cell, d, k)] = Null

CanCapture(board, cell) ==
    /\ board[cell] # Null
    /\ \E d \in Directions, i \in 2..(BoardSize - 1) : CaptureAlong(board, cell, d, i)

PiecesOf(board, colour) == {x \in Cells : toLowerCase(board[x]) = colour}

\* --------------------------------------------------------------- C12
\* C12: capture is mandatory for the whole side: if any piece of a colour can
\* capture, findAllPossibleMoves returns only capture moves for that colour,
\* each of them a capture some piece of the colour can make.
C12_CaptureMandatorySideWide ==
    \A colour \in Colours :
        (\E x \in PiecesOf(lobbyGame.board, colour) : CanCapture(lobbyGame.board, x))
        => \A m \in findAllPossibleMoves(lobbyGame.board, colour) :
              /\ m.isJump
              /\ \E d \in Directions, i \in 2..(BoardSize - 1) :
                    /\ m.to = Step(m.from, d, i)
                    /\ CaptureAlong(lobbyGame.board, m.from, d, i)

\* A piece of the colour to move can capture while another piece of that
\* colour has only simple moves, and findAllPossibleMoves returns captures.
C12_Witness ==
    LET colour == ColourOf(lobbyGame.turnIndex)
        board  == lobbyGame.board
    IN  /\ \E x, y \in PiecesOf(board, colour) :
              /\ CanCapture(board, x)
              /\ ~CanCapture(board, y)
              /\ calculateRawMoves(board, y[1], y[2]) # {}
        /\ findAllPossibleMoves(board, colour) # {}
        /\ \A m \in findAllPossibleMoves(board, colour) : m.isJump

\* --------------------------------------------------------------- C11
\* C11: in the queue server a player never gets two moves applied in one
\* turn: a second makeMove of the player in turn that arrives while
\* handleGameMove is suspended on the write of the first move is not applied,
\* unless a capture chain of that player is pending.
C11_OneMovePerTurn ==
    queueGame.lastMove = <<>> => queueGame.inTurn <= 1

\* --------------------------------------------------------------- C13
\* The cell a move landed on: empty before the step, occupied after it.
Landing(before, after) ==
    CHOOSE x \in Cells : before[x] = Null /\ after[x] # Null

PieceCount(board) == Cardinality({x \in Cells : board[x] # Null})

C14_ChainSamePiece ==
    [][(lobbyGame.chain # <<>> /\ lobbyGame'.board # lobbyGame.board) =>
          /\ lobbyGame'.board[lobbyGame.chain] = Null
          /\ PieceCount(lobbyGame'.board) < PieceCount(lobbyGame.board)]_vars

\* --------------------------------------------------------------- C15
\* The row farthest from the side a colour starts on.
FarRow(colour) == IF colour = "b" THEN 0 ELSE BoardSize - 1

\* What stands on the landing cell after piece has moved there.
Crowned(piece, to) ==
    IF piece \in Colours /\ to[1] = FarRow(piece) THEN toUpperCase(piece)
    ELSE piece

\* C15: a man that lands on the farthest row for its colour (row 0 for 'b',
\* row 7 for 'r') is a king after that same move, also when the move is a
\* capture; a man that lands on any other row stays a man and a king stays
\* a king.  This holds of updateBoardState for every move calculateRawMoves
\* generates and of applyMove for every move isValidMove accepts.
C15_Promotion ==
    LET board == lobbyGame.board
    IN  \A x \in {y \in Cells : board[y] # Null} :
           /\ \A m \in calculateRawMoves(board, x[1], x[2]) :
                 updateBoardState(board, m)[m.to] = Crowned(board[x], m.to)
           /\ \A to \in Cells :
                 isValidMove(board, x, to, toLowerCase(board[x])) =>
                    applyMove(board, x, to, toLowerCase(board[x]))[to]
                       = Crowned(board[x], to)

\* A man of each server's rules captures onto its farthest row and is
\* crowned by that move.
C15_Witness ==
    LET board == lobbyGame.board
    IN  \E x \in {y \in Cells : board[y] \in Colours} :
           /\ \E m \in calculateRawMoves(board, x[1], x[2]) :
                 /\ m.isJump
                 /\ m.to[1] = FarRow(board[x])
                 /\ updateBoardState(board, m)[m.to] = toUpperCase(board[x])
           /\ \E to \in Cells :
                 /\ isValidMove(board, x, to, board[x])
                 /\ applyMoveIsCapture(x, to)
                 /\ to[1] = FarRow(board[x])
                 /\ applyMove(board, x, to, board[x])[to] = toUpperCase(board[x])

\* --------------------------------------------------------------- C16
\* Exactly one enemy piece stands strictly between from and to on their
\* diagonal, every other cell between them is empty and so is to.
OneEnemyBetween(board, from, to) ==
    \E d \in Directions, i \in 2..(BoardSize - 1) :
        /\ to = Step(from, d, i)
        /\ board[to] = Null
        /\ Cardinality({k \in 1..(i - 1) :
              toLowerCase(board[Step(from, d, k)])
                 = OtherColour(toLowerCase(board[from]))}) = 1
        /\ Cardinality({k \in 1..(i - 1) : board[Step(from, d, k)] # Null}) = 1

Kings(board) == {x \in Cells : board[x] \in {"B", "R"}}

\* C16: no king capture is generated by calculateRawMoves or by
\* findCapturesForPiece, or accepted by isValidCapture, whose path crosses two
\* occupied cells or a piece of the king's colour: every king capture has
\* exactly one enemy piece strictly between origin and landing, every other
\* cell of the path and the landing cell being empty.
C16_KingCapturePath ==
    LET board == lobbyGame.board
    IN  \A x \in Kings(board) :
           /\ \A m \in calculateRawMoves(board, x[1], x[2]) :
                 m.isJump => OneEnemyBetween(board, x, m.to)
           /\ \A c \in findCapturesForPiece(board, x[1], x[2]) :
                 OneEnemyBetween(board, x, c.to)
           /\ \A to \in Cells :
                 (/\ Abs(to[1] - x[1]) >= 2
                  /\ isValidMove(board, x, to, toLowerCase(board[x])))
                 => OneEnemyBetween(board, x, to)

\* A king has a capture landing more than two cells away that both
\* generators return and isValidCapture accepts.
C16_Witness ==
    LET board == lobbyGame.board
    IN  \E x \in Kings(board), to \in Cells :
           /\ Abs(to[1] - x[1]) > 2
           /\ \E m \in calculateRawMoves(board, x[1], x[2]) :
                 m.isJump /\ m.to = to
           /\ \E c \in findCapturesForPiece(board, x[1], x[2]) : c.to = to
           /\ isValidMove(board, x, to, toLowerCase(board[x]))

\* --------------------------------------------------------------- C17
\* The piece on cell has a simple move: a man to an empty adjacent cell of
\* the next row in its direction of play, a king to any empty adjacent
\* diagonal cell.
CanStepFrom(board, cell) ==
    \E d \in Directions :
        /\ Step(cell, d, 1) \in Cells
        /\ board[Step(cell, d, 1)] = Null
        /\ board[cell] = "b" => d[1] = 0 - 1
        /\ board[cell] = "r" => d[1] = 1

\* The colour has no piece, or none of its pieces has a move.
CannotMove(board, colour) ==
    \A x \in PiecesOf(board, colour) :
        ~CanCapture(board, x) /\ ~CanStepFrom(board, x)

C18_LastPieceWins ==
    [][LET mover == ColourOf(lobbyGame.turnIndex)
       IN  (/\ ~lobbyGame.isFinished
            /\ PiecesOf(lobbyGame.board, OtherColour(mover)) # {}
            /\ PiecesOf(lobbyGame'.board, OtherColour(mover)) = {})
           => /\ lobbyGame'.isFinished
              /\ lobbyGame'.winner = mover]_vars

\* A move has captured the last piece of a colour and the game is finished
\* with the other colour as winner.
C18_Witness ==
    /\ lobbyGame.ply = MaxPly
    /\ lobbyGame.isFinished
    /\ lobbyGame.winner \in Colours
    /\ PiecesOf(lobbyGame.board, OtherColour(lobbyGame.winner)) = {}
    /\ PiecesOf(lobbyGame.board, lobbyGame.winner) # {}

\* --------------------------------------------------------------- C19
\* The boards of the matches just created: no move has been applied.
NewBoards ==
    (IF lobbyGame.ply = 0 THEN {lobbyGame.board} ELSE {})
    \cup (IF queueGame.ply = 0 THEN {queueGame.board} ELSE {})

\* No kings, every piece on a dark square, the two colours on opposite rows.
MenOnOppositeRows(board) ==
    /\ Kings(board) = {}
    /\ \A x \in Cells : board[x] # Null => (x[1] + x[2]) % 2 = 1
    /\ \A x \in PiecesOf(board, "r"), y \in PiecesOf(board, "b") : x[1] < y[1]

\* C19 as stated: every newly created match starts from a board holding
\* exactly 8 men of each colour and no kings, the two colours placed on
\* opposite dark-square rows.
C19_EightMenPerSide ==
    \A board \in NewBoards :
        /\ Cardinality(PiecesOf(board, "b")) = 8
        /\ Cardinality(PiecesOf(board, "r")) = 8
        /\ MenOnOppositeRows(board)

\* C19, amended: every newly created match starts from a board holding
\* exactly 12 men of each colour and no kings, the two colours placed on
\* opposite dark-square rows.
C19_TwelveMenPerSide ==
    \A board \in NewBoards :
        /\ Cardinality(PiecesOf(board, "b")) = 12
        /\ Cardinality(PiecesOf(board, "r")) = 12
        /\ MenOnOppositeRows(board)

\* Both servers hold a match just created, on the same board of 24 pieces.
C19_Witness ==
    /\ lobbyGame.ply = 0
    /\ queueGame.ply = 0
    /\ lobbyGame.board = queueGame.board
    /\ PieceCount(lobbyGame.board) = 24

\* --------------------------------------------------------------- C20
\* C20: a match just created has its turn held by the first player of the
\* fixed policy, the host or players[0], who plays 'b', so that this player's
\* first legal move is accepted.
C20_FirstPlayerHoldsTurn ==
    /\ lobbyGame.ply = 0 =>
          lobbyGame.turnIndex = 0 /\ ColourOf(lobbyGame.turnIndex) = "b"
    /\ queueGame.ply = 0 =>
          queueGame.currentTurn = 1 /\ PlayerColor(queueGame.currentTurn) = "b"

\* ---------------------------------------------------------------- C21
\* The findMatch checks of handleFindMatch that answer with an error.
FindMatchRejected(u, betAmount) ==
    \/ betAmount < 0
    \/ socketUser[u] < betAmount
    \/ isPlayerInQueue(u)
    \/ isPlayerInGame(u)

\* Slot h holds a createMatch that this step has started.
StartsMatch(h) == calls[h].op # "createMatch" /\ calls'[h].op = "createMatch"

\* C21: a findMatch with stake s that passes the checks while the queue of s
\* is non-empty calls createMatch for the caller and the first entry of that
\* queue (entries are appended, so the first has waited longest) and removes
\* that entry and no other; every createMatch that is started takes its
\* opponent from the head of the queue of its own stake, and the queues of
\* the other stakes are left as they were.
C21_OldestOfStakePaired ==
    [][/\ \A u \in Users, s \in Stakes :
            (handleFindMatch(u, s) /\ ~FindMatchRejected(u, s)
                /\ matchmakingQueues[s] # <<>>)
            => \E h \in Slots : /\ StartsMatch(h)
                                /\ calls'[h].u = u
                                /\ calls'[h].amt = s
       /\ \A h \in Slots :
            StartsMatch(h)
            => LET s == calls'[h].amt IN
               /\ matchmakingQueues[s] # <<>>
               /\ calls'[h].v = matchmakingQueues[s][1]
               /\ calls'[h].v # calls'[h].u
               /\ matchmakingQueues'[s] = Tail(matchmakingQueues[s])
               /\ \A t \in Stakes \ {s} :
                     matchmakingQueues'[t] = matchmakingQueues[t]
      ]_vars

\* A createMatch has just been started from the queue of its stake while an
\* entry waits under the other stake.
C21_Witness ==
    \E h \in Slots :
        /\ calls[h].op = "createMatch" /\ calls[h].pc = "save"
        /\ matchmakingQueues[calls[h].amt] = <<>>
        /\ \E t \in Stakes \ {calls[h].amt} :
              /\ matchmakingQueues[t] # <<>>
              /\ matchmakingQueues[t][1] \notin {calls[h].u, calls[h].v}

\* ---------------------------------------------------------------- C22
\* C22: a findMatch whose stake is negative or above the balance the
\* caller's account holds at that moment, or whose caller is in a queue or a
\* player of a game, changes no queue and no game and starts no match.
C22_BadFindMatchChangesNothing ==
    [][\A u \in Users, b \in BetAmounts :
          (/\ handleFindMatch(u, b)
           /\ \/ b < 0
              \/ balance[u] < b
              \/ isPlayerInQueue(u)
              \/ isPlayerInGame(u))
          => /\ UNCHANGED <<matchmakingQueues, gsActiveGames>>
             /\ \A h \in Slots : ~StartsMatch(h)
      ]_vars

\* ---------------------------------------------------------------- C23
\* C23: cancelFindMatch leaves in every queue exactly the entries of the
\* other players, in the order they had (so nothing changes when the caller
\* has no entry), and changes no game, no balance and no handler in flight.
C23_CancelRemovesOnlyCaller ==
    [][\A u \in Users :
          handleCancelFindMatch(u)
          => /\ \A b \in Stakes :
                   matchmakingQueues'[b] =
                       SelectSeq(matchmakingQueues[b], LAMBDA p : p # u)
             /\ UNCHANGED <<gsActiveGames, balance, calls>>
      ]_vars

\* The caller waits in a queue, another player waits in another, and the
\* caller's cancelFindMatch is about to take the caller's entry out.
C23_Witness ==
    \E u \in Users, v \in Users :
        /\ u # v
        /\ isPlayerInQueue(u)
        /\ isPlayerInQueue(v)
        /\ ENABLED (handleCancelFindMatch(u) /\ ~isPlayerInQueue(u)')

\* ---------------------------------------------------------------- C24
\* The joins the claim has rejected: no room under the code, a room with two
\* players, a stake above the joiner's account balance, or the joiner being
\* the room's creator.
JoinToReject(u, code) ==
    LET i == RoomIndex(code) IN
    \/ i = 0
    \/ /\ i # 0
       /\ \/ Len(gsActiveGames[i].players) >= 2
          \/ balance[u] < gsActiveGames[i].betAmount
          \/ gsActiveGames[i].creator = u

\* C24: a joinPrivateRoom for an unknown code, for a room with two players,
\* by a joiner whose balance is below the room's stake or by the room's
\* creator changes no room (nor any other entry of activeGames) and no
\* balance.
C24_BadJoinChangesNothing ==
    [][\A u \in Users, code \in 1..MaxRooms :
          (handleJoinPrivateRoom(u, code) /\ JoinToReject(u, code))
          => UNCHANGED <<gsActiveGames, balance>>
      ]_vars

\* A room with a stake exists whose creator is connected and may send
\* joinPrivateRoom for it, and so may a player whose balance is below the
\* stake.
C24_Witness ==
    \E u \in Users, v \in Users, code \in 1..MaxRooms :
        /\ RoomIndex(code) # 0
        /\ gsActiveGames[RoomIndex(code)].creator = u
        /\ gsActiveGames[RoomIndex(code)].betAmount > 0
        /\ v # u
        /\ balance[v] < gsActiveGames[RoomIndex(code)].betAmount
        /\ ENABLED handleJoinPrivateRoom(u, code)
        /\ ENABLED handleJoinPrivateRoom(v, code)

\* ---------------------------------------------------------------- C25
\* C25: a createPrivateRoom that passes the balance check adds one entry to
\* activeGames under a key no entry had, and every entry that was there
\* stays as it was.
C25_RoomCodeUnused ==
    [][\A u \in Users, b \in Stakes, code \in 1..MaxRooms :
          (handleCreatePrivateRoom(u, b, code)
              /\ ~(b > 0 /\ socketUser[u] < b))
          => /\ RoomIndex(code) = 0
             /\ Len(gsActiveGames') = Len(gsActiveGames) + 1
             /\ \A i \in Indices(gsActiveGames) :
                   gsActiveGames'[i] = gsActiveGames[i]
      ]_vars

\* ---------------------------------------------------------------- C26
\* The lobby's handleMakeMove returns without a move: the sender does not
\* hold the turn, or the move is not among the legal moves of the colour to
\* move (an illegal destination, or a simple move while a capture exists).
LobbyRejects(sender, from, to) ==
    \/ sender # lobbyGame.turnIndex
    \/ ~\E m \in findAllPossibleMoves(lobbyGame.board,
                                      ColourOf(lobbyGame.turnIndex)) :
            m.from = from /\ m.to = to

\* The queue server's handleGameMove answers with an error: not the
\* sender's turn, another piece than the one of the capture sequence, a
\* capture available to the colour, or a move isValidMove refuses.
QueueRejects(sender, from, to) ==
    \/ queueGame.currentTurn # sender
    \/ /\ queueGame.lastMove # <<>>
       /\ queueGame.lastMove[1] = sender
       /\ from # queueGame.lastMove[2]
    \/ findAllCaptures(queueGame.board, PlayerColor(sender)) # {}
    \/ ~isValidMove(queueGame.board, from, to, PlayerColor(sender))

\* C26: a makeMove that either server rejects leaves the game as it was:
\* board, turn and capture-sequence marker, and no entry is written to the
\* match's moves.
C26_RejectedMoveChangesNothing ==
    [][/\ \A sender \in {0, 1}, x \in MoveInputs(lobbyGame.board) :
            (handleMakeMove(sender, x[1], x[2])
                /\ LobbyRejects(sender, x[1], x[2]))
            => UNCHANGED lobbyGame
       /\ \A sender \in {1, 2}, x \in MoveInputs(queueGame.board) :
            (handleGameMove(sender, x[1], x[2])
                /\ QueueRejects(sender, x[1], x[2]))
            => UNCHANGED <<queueGame, calls>>
      ]_vars

\* The player who holds the turn in the queue server's game has a capture
\* available and sends a simple move that isValidMove accepts.
C26_Witness ==
    \E x \in MoveInputs(queueGame.board) :
        /\ queueGame.currentTurn # 0
        /\ findAllCaptures(queueGame.board,
                           PlayerColor(queueGame.currentTurn)) # {}
        /\ isValidMove(queueGame.board, x[1], x[2],
                       PlayerColor(queueGame.currentTurn))
        /\ ENABLED handleGameMove(queueGame.currentTurn, x[1], x[2])

\* ---------------------------------------------------------------- C27
\* C27: once a lobby game is finished, and for as long as it stays in
\* activeGames while its settlement is in progress, no makeMove is applied
\* to it.  handleMakeMove passes the turn only after updateBoardState has
\* applied a move to the board, so the turn of a finished game never
\* changes.
C27_NoMoveAfterCompletion ==
    [][\A g \in DOMAIN activeGames :
          (activeGames[g].isFinished /\ g \in DOMAIN activeGames')
          => activeGames'[g].turnIndex = activeGames[g].turnIndex
      ]_vars

\* ---------------------------------------------------------------- C28
\* C28: checkLevelUp raises the level by the number of whole thresholds in
\* the accumulated xp and stores what is left, so that
\* level * XP_PER_LEVEL + xp is the same before and after and the stored xp
\* is below the threshold.
C28_LevelUpRepeats ==
    [][\A u \in Users :
          checkLevelUp(u)
          => /\ stats'[u].level =
                   stats[u].level + (stats[u].xp \div XP_PER_LEVEL)
             /\ stats'[u].xp = stats[u].xp % XP_PER_LEVEL
             /\ stats'[u].level * XP_PER_LEVEL + stats'[u].xp =
                   stats[u].level * XP_PER_LEVEL + stats[u].xp
             /\ stats'[u].xp < XP_PER_LEVEL
      ]_vars

\* ---------------------------------------------------------------- C29
\* The squares of the checkerboard colour the games are played on.
DarkSquare(cell) == (cell[1] + cell[2]) % 2 = 1

\* C29: in every state of a game of either server, whatever origins and
\* destinations the clients send, every piece stands on a square whose row
\* and column add up to an odd number.
C29_DarkSquaresOnly ==
    \A cell \in Cells :
        (lobbyGame.board[cell] # Null \/ queueGame.board[cell] # Null)
        => DarkSquare(cell)

\* Three moves of a lobby game have been applied, the last of them a
\* capture.
C29_Witness ==
    /\ lobbyGame.ply = MaxPly
    /\ PieceCount(lobbyGame.board) = PieceCount(LobbyInitialBoard) - 1

\* ---------------------------------------------------------------- C30
\* The cell the moved piece of the colour left.
Origin(before, after, colour) ==
    CHOOSE x \in Cells : toLowerCase(before[x]) = colour /\ after[x] = Null

\* A piece of the colour stood strictly between the two cells, on their
\* diagonal.
JumpsOver(board, from, to, colour) ==
    \E d \in Directions, i \in 2..(BoardSize - 1) :
        /\ to = Step(from, d, i)
        /\ \E k \in 1..(i - 1) : toLowerCase(board[Step(from, d, k)]) = colour

\* What one applied move of the colour does to the number of pieces: the
\* mover keeps its pieces, the other colour loses at most one, and none
\* when the move did not pass over one of its pieces.
CountsAfterMove(before, after, colour) ==
    LET own  == Cardinality(PiecesOf(before, colour))
        opp  == Cardinality(PiecesOf(before, OtherColour(colour)))
        own2 == Cardinality(PiecesOf(after, colour))
        opp2 == Cardinality(PiecesOf(after, OtherColour(colour)))
    IN  /\ own2 = own
        /\ opp2 \in {opp, opp - 1}
        /\ ~JumpsOver(before, Origin(before, after, colour),
                      Landing(before, after), OtherColour(colour))
           => opp2 = opp

\* C30: every move applied to the board of a game of either server leaves
\* the mover's number of pieces as it was and takes at most one piece of the
\* other colour, and none unless the move is a capture: no colour's count
\* ever increases.
C30_PieceCountsNeverIncrease ==
    [][/\ lobbyGame'.board # lobbyGame.board
          => CountsAfterMove(lobbyGame.board, lobbyGame'.board,
                             ColourOf(lobbyGame.turnIndex))
       /\ queueGame'.board # queueGame.board
          => CountsAfterMove(queueGame.board, queueGame'.board,
                             PlayerColor(queueGame.currentTurn))
      ]_vars

\* A capture has been applied in a lobby game: one colour is a piece short,
\* the other complete.
C30_Witness ==
    \E colour \in Colours :
        /\ Cardinality(PiecesOf(lobbyGame.board, colour))
              = Cardinality(PiecesOf(LobbyInitialBoard, colour)) - 1
        /\ Cardinality(PiecesOf(lobbyGame.board, OtherColour(colour)))
              = Cardinality(PiecesOf(LobbyInitialBoard, colour))

\* ---------------------------------------------------------------- C31
\* The men of a board, and whether a move of a piece of the colour leads
\* forward: toward row 0 for 'b', toward row 7 for 'r'.
Men(board) == {x \in Cells : board[x] \in Colours}

Forward(colour, from, to) ==
    IF colour = "b" THEN to[1] < from[1] ELSE to[1] > from[1]

\* The squares a man on x could jump to: two rows and two columns away, with
\* a piece of the other colour between and the landing square empty.
ManJumps(board, x) ==
    {d \in Directions :
        /\ InBoard(x[1] + 2 * d[1], x[2] + 2 * d[2])
        /\ board[<<x[1] + 2 * d[1], x[2] + 2 * d[2]>>] = Null
        /\ toLowerCase(board[<<x[1] + d[1], x[2] + d[2]>>])
              = OtherColour(board[x])}

\* C31 as stated: a man captures only forward; no capture is generated (by
\* calculateRawMoves or findCapturesForPiece) or accepted (by isValidMove)
\* that moves a 'b' man toward a higher row or an 'r' man toward a lower row.
C31_MenCaptureForward ==
    LET board == lobbyGame.board
    IN  \A x \in Men(board) :
           /\ \A m \in calculateRawMoves(board, x[1], x[2]) :
                 m.isJump => Forward(board[x], x, m.to)
           /\ \A c \in findCapturesForPiece(board, x[1], x[2]) :
                 Forward(board[x], x, c.to)
           /\ \A to \in Cells :
                 (/\ Abs(to[1] - x[1]) >= 2
                  /\ isValidMove(board, x, to, board[x]))
                 => Forward(board[x], x, to)

\* C31, amended: a man moves without capturing only forward -- no simple move
\* is generated or accepted that moves a 'b' man toward a higher row or an
\* 'r' man toward a lower row -- while its captures are generated and
\* accepted in all four diagonal directions: over every adjacent piece of
\* the other colour with an empty square behind it.
C31_MenStepForward ==
    LET board == lobbyGame.board
    IN  \A x \in Men(board) :
           /\ \A m \in calculateRawMoves(board, x[1], x[2]) :
                 ~m.isJump => Forward(board[x], x, m.to)
           /\ \A to \in Cells :
                 (/\ Abs(to[1] - x[1]) = 1
                  /\ isValidMove(board, x, to, board[x]))
                 => Forward(board[x], x, to)
           /\ \A d \in ManJumps(board, x) :
                 LET to == <<x[1] + 2 * d[1], x[2] + 2 * d[2]>>
                 IN  /\ \E m \in calculateRawMoves(board, x[1], x[2]) :
                           m.isJump /\ m.to = to
                     /\ \E c \in findCapturesForPiece(board, x[1], x[2]) :
                           c.to = to
                     /\ isValidMove(board, x, to, board[x])

\* A man has an empty square diagonally behind it, which no generator and no
\* validator offers as a step, and has just captured backward: the mover's
\* man stands two rows behind the square it left, the piece between gone.
C31_Witness ==
    LET board == lobbyGame.board
        mover == ColourOf(1 - lobbyGame.turnIndex)
    IN  /\ lobbyGame.ply # MidGame
        /\ \E x \in Men(board), d \in Directions :
              LET from == <<x[1] - 2 * d[1], x[2] - 2 * d[2]>>
                  back == <<x[1] + d[1], x[2] + d[2]>>
              IN  /\ board[x] = mover
                  /\ InBoard(from[1], from[2]) /\ InBoard(back[1], back[2])
                  /\ ~Forward(mover, from, x)
                  /\ board[from] = Null
                  /\ board[<<x[1] - d[1], x[2] - d[2]>>] = Null
                  /\ board[back] = Null
                  /\ ~Forward(mover, x, back)
                  /\ ~isValidMove(board, x, back, mover)

\* ---------------------------------------------------------------- C32
\* C32: in the queue server isValidMove accepts a king's move without capture
\* to any empty square along a diagonal whose squares between are all empty,
\* at any distance from 1 to 7.
C32_KingSlidesAccepted ==
    LET board == lobbyGame.board
    IN  \A x \in Kings(board), d \in Directions, i \in 1..(BoardSize - 1) :
           (/\ InBoard(Step(x, d, i)[1], Step(x, d, i)[2])
            /\ \A k \in 1..i : board[Step(x, d, k)] = Null)
           => isValidMove(board, x, Step(x, d, i), toLowerCase(board[x]))

\* ---------------------------------------------------------------- C33
\* C33: no open wager and no matchmaking queue entry belongs to a user who
\* has disconnected (and not connected again), also when the disconnect
\* arrived while that user's hostWageredGame was suspended at its lookup.
C33_NothingOpenAfterDisconnect ==
    \A u \in Users :
        /\ u \notin onlineUsers => u \notin DOMAIN openWagers
        /\ u \notin playerSockets => QueueEntries(u) = {}

\* ---------------------------------------------------------------- C34
\* C34: a private room that a second player has not joined does not outlive
\* its creator's connection: every such room of activeGames has a creator
\* who is connected.
C34_WaitingRoomHasCreator ==
    \A i \in Indices(gsActiveGames) :
        (gsActiveGames[i].isPrivate /\ Len(gsActiveGames[i].players) < 2)
        => gsActiveGames[i].creator \in playerSockets

\* ---------------------------------------------------------------- C35
\* The match m of the queue server is in activeGames.
MatchActive(m) ==
    \E i \in Indices(gsActiveGames) : gsActiveGames[i].roomCode = MatchCode(m)

\* C35: in both servers every active match in which a player surrenders or
\* disconnects -- a lobby game marked finished, a queue-server match with a
\* settlement running -- is eventually removed from activeGames, whether the
\* settlement's database writes succeed or fail.
C35_ForfeitedMatchRemoved ==
    /\ \A g \in 1..MaxGames :
          (g \in DOMAIN activeGames /\ activeGames[g].isFinished)
             ~> (g \notin DOMAIN activeGames)
    /\ \A m \in 1..MaxMatches :
          (MatchActive(m) /\ \E h \in Slots : /\ calls[h].op = "gameOver"
                                              /\ calls[h].g = m)
             ~> ~MatchActive(m)

\* ---------------------------------------------------------------- C36
\* C36: once a user's disconnect has been handled and every handler in
\* flight has finished, no game of either server's activeGames has that user
\* as a player, also when the match was being formed (acceptWager,
\* createMatch) when the disconnect arrived.
C36_DisconnectForfeits ==
    Quiescent =>
        \A u \in Users :
            /\ u \notin onlineUsers
                  => \A g \in DOMAIN activeGames : ~PlaysIn(g, u)
            /\ u \notin playerSockets => GamesOf(u) = {}

\* ---------------------------------------------------------------- C37
\* C37: in the lobby server, whenever acceptWager has debited the two stakes
\* -- the second debit of a Promise.all without failure completes -- a game
\* holding the pot of both is registered in activeGames as the handler ends:
\* no acceptWager exits with both stakes taken and no game.
C37_StakesNeverStranded ==
    [][\A h \in Slots :
          (/\ calls[h].op = "accept" /\ calls[h].pc = "debit"
           /\ Cardinality(calls[h].pend) = 1
           /\ calls'[h] = Idle
           /\ \E x \in calls[h].pend :
                 balance'[x] = balance[x] - calls[h].amt)
          => /\ nextRoom \in DOMAIN activeGames'
             /\ nextRoom \notin DOMAIN activeGames
             /\ activeGames'[nextRoom].pot = 2 * calls[h].amt
      ]_vars

\* ---------------------------------------------------------------- C38
\* C38: in the queue server every capture that findCapturesForPiece lists is
\* accepted by isValidMove on the same board, and applyMove of it empties
\* the listed captured cell and no other cell but the origin.
C38_EnumerationAndValidatorAgree ==
    LET board == lobbyGame.board
    IN  \A x \in {y \in Cells : board[y] # Null} :
           \A c \in findCapturesForPiece(board, x[1], x[2]) :
              LET colour == toLowerCase(board[x])
                  after  == applyMove(board, x, c.to, colour)
              IN  /\ isValidMove(board, x, c.to, colour)
                  /\ \A cell \in Cells \ {x, c.to} :
                        after[cell] = IF cell = c.captured THEN Null
                                      ELSE board[cell]

\* ---------------------------------------------------------------- C39
\* C39: in the queue server requestAvailableMoves, sent by the player who
\* holds the turn, lists only moves that makeMove would accept in the same
\* state: no move that isValidMove rejects, and no simple move while any
\* piece of the sender's side has a capture.
C39_ListedMovesAccepted ==
    LET board == lobbyGame.board
    IN  \A sender \in {1, 2}, position \in Cells :
           LET gameState == [NewQueueGame EXCEPT !.board = board,
                                                 !.currentTurn = sender]
               colour    == PlayerColor(sender)
           IN  \A m \in handleAvailableMovesRequest(gameState, sender, position) :
                  /\ isValidMove(board, m.from, m.to, colour)
                  /\ findCapturesForPiece(board, position[1], position[2]) = {}
                        => findAllCaptures(board, colour) = {}

\* ---------------------------------------------------------------- C40
\* C40: every open wager, matchmaking queue entry, private room and game
\* that either server stores has a stake that is not negative.
C40_StakesNotNegative ==
    /\ \A u \in DOMAIN openWagers : openWagers[u].betAmount >= 0
    /\ \A g \in DOMAIN activeGames : activeGames[g].pot >= 0
    /\ \A b \in DOMAIN matchmakingQueues :
          Len(matchmakingQueues[b]) > 0 => b >= 0
    /\ \A i \in Indices(gsActiveGames) : gsActiveGames[i].betAmount >= 0

====
